---- MODULE Spec2Model ----
(***************************************************************************)
(* A model of the WebSocket <-> upstream proxy session (WebsocketProxy)    *)
(* with its recorder (ActionRecorder) and its player.                      *)
(*                                                                         *)
(* Time is counted in units of 100 ms; Date.now() is the variable now.     *)
(* The clock starts at 1: Date.now() is never 0.                            *)
(* An optional value of the source (x?: T) is a sequence of length <= 1:   *)
(* <<>> is undefined and <<v>> is the value v.  An optional number that    *)
(* the source only tests for truthiness is a number, 0 being undefined.    *)
(***************************************************************************)
EXTENDS Integers, Sequences, FiniteSets, TLC

\* ---------------------------------------------------------------- bounds
MaxTimeRecorder == 4
MaxTimePlayer == 4
MaxTimeControl == 3
MaxFrames == 3
MaxPending == 1

\* ------------------------------------------------------ program constants
FinishDelay == 2
CloseNormal == 1000
CloseInitFailed == 4005
CloseUpstreamClosed == 4010
CloseUpstreamError == 4011

None == <<>>
Some(x) == <<x>>

Max(a, b) == IF a >= b THEN a ELSE b

\* The k-th frame a session receives: text and binary frames alternate and
\* every frame has its own content.
Frame(k) == [kind |-> IF k % 2 = 1 THEN "string" ELSE "buffer", val |-> k]

\* Recording ids: the ids a caller names, and the ids createId() makes
\* (session-<epoch-ms>).
NamedIds == {1, 2}
CreateId(t) == 100 + t

\* ---------------------------------------------------------- ActionRecorder
\* ActionRecorder.encode: a string is stored as is, bytes as base64.
encode(data) ==
    IF data.kind = "string"
    THEN [payload |-> <<"utf8", data.val>>, isBinary |-> FALSE]
    ELSE [payload |-> <<"base64", data.val>>, isBinary |-> TRUE]

\* ActionRecorder.decodeMessage: base64 back to bytes when binary.
decodeMessage(message) ==
    IF message.binary
    THEN [kind |-> "buffer", val |-> message.data[2]]
    ELSE [kind |-> "string", val |-> message.data[2]]

\* new ActionRecorder(id, ...)
NewRecorder(id, t) ==
    [id |-> id, startedAt |-> t, pausedAt |-> 0, pausedDuration |-> 0,
     messages |-> <<>>]

getElapsedSinceStart(r, t) == t - r.startedAt

getElapsed(r, t) ==
    LET pausedDelta == IF r.pausedAt # 0 THEN t - r.pausedAt ELSE 0
    IN  t - r.startedAt - r.pausedDuration - pausedDelta

capture(r, data, t) ==
    LET at == getElapsed(r, t)
        e == encode(data)
    IN  [r EXCEPT !.messages =
            Append(@, [at |-> at, data |-> e.payload, binary |-> e.isBinary])]

RecorderPause(r, t) ==
    IF r.pausedAt # 0 THEN r ELSE [r EXCEPT !.pausedAt = t]

RecorderResume(r, t) ==
    IF r.pausedAt = 0 THEN r
    ELSE [r EXCEPT !.pausedDuration = @ + (t - r.pausedAt), !.pausedAt = 0]

\* The file persist() writes.
RecordingOf(r) == [id |-> r.id, messages |-> r.messages]

\* Array.prototype.sort by `at` (stable): insertion of each message after the
\* last one whose `at` is not larger.
RECURSIVE InsertByAt(_, _)
InsertByAt(sorted, m) ==
    IF sorted = <<>> THEN <<m>>
    ELSE IF sorted[Len(sorted)].at <= m.at THEN Append(sorted, m)
    ELSE Append(InsertByAt(SubSeq(sorted, 1, Len(sorted) - 1), m),
                sorted[Len(sorted)])

RECURSIVE SortByAt(_)
SortByAt(msgs) ==
    IF msgs = <<>> THEN <<>>
    ELSE InsertByAt(SortByAt(SubSeq(msgs, 1, Len(msgs) - 1)), msgs[Len(msgs)])

\* ActionRecorder.load on the content of a file.
load(file) == [id |-> file.id, messages |-> SortByAt(file.messages)]

\* The recording that is on disk when the server starts.
DemoRecording ==
    [id |-> 1,
     messages |-> << [at |-> 0, data |-> <<"utf8", 1>>, binary |-> FALSE],
                     [at |-> 1, data |-> <<"base64", 2>>, binary |-> TRUE] >>]

\* ------------------------------------------------------------------ state
VARIABLES
    now,        \* Date.now()
    horizon,    \* the time up to which the session is observed
    proxy,      \* the fields of the WebsocketProxy object, its timers and its
                \* entry in RecordingStatusService
    upstream,   \* the upstream socket (new WS(remoteUrl))
    ws,         \* the downstream socket
    disk,       \* the recordings directory, restricted to the files a caller
                \* names: id -> optional file
    pending,    \* suspended async calls (await persist / await load)
    last,       \* the last control call and its outcome: "ok", "error", or
                \* "pending" while it is suspended
    ghost,      \* history used by the properties only
    mapping,    \* SyncService.mapping: the entries [target, receivers] in
                \* insertion order
    syncState,  \* what the last setMapping() returned
    peers,      \* the sessions that run side by side under sync dispatch:
                \* object -> optional [proxy, upstream, ws]
    sessions,   \* WebsocketProxy.sessions: session id -> optional object
    delivered,  \* history: per object, the frames that are due at its
                \* upstream, in the order their source received them
    socket,     \* the browser WebSocket under the client's root MuxChannel
    chan,       \* the MuxChannel objects in order of construction; a
                \* channel is named by its position
    microtasks, \* the callbacks queued with queueMicrotask, oldest first
    muxGhost,   \* history used by the multiplexer properties only
    dls,        \* the static fields of DeviceListSocket
    calls,      \* the suspended async calls of DeviceListSocket
    inbox,      \* per subscriber, the snapshots its socket was sent
    cc,         \* the fields of the ControlCenter singleton, its trackers, its
                \* restart timer and its suspended init() calls
    collected,  \* the last call of collectDevices() on its own: optional
                \* [raw, preferences, filtered]
    push,       \* one call of pushFile(): its position, its locals, the
                \* listeners of waitForPushAck and the ACKs it took
    splitter,   \* an AnnexBSplitter, the stream it is fed and the units it
                \* has passed to onNalu
    config,     \* a stream config, the bytes built from it and the config
                \* parsed from them, each optional
    awake,      \* KeepAwakeService and the device it keeps awake: the timers
                \* map, every timer made, the keepAwake() calls, the clock
    install,    \* the last request to POST /api/goog/device/install-uploaded
                \* and what it did, optional
    connect,    \* POST /api/devices/connect and the connection preferences
    lookup,     \* the serial and IP caches of DeviceListSocket and its lookups
    reg         \* WebsocketProxy.sessions and RecordingStatusService.statuses

peerVars == <<peers, sessions, delivered>>

muxVars == <<socket, chan, microtasks, muxGhost>>

listVars == <<dls, calls, inbox>>

\* The services that are modelled on their own, one variable each, and
\* for each of them all the state that its operations leave alone.
restVars == <<cc, collected, push, splitter, config, awake, install, connect, lookup, reg>>

baseVars == <<now, horizon, proxy, upstream, ws, disk, pending, last, ghost,
              mapping, syncState, peers, sessions, delivered,
              socket, chan, microtasks, muxGhost, dls, calls, inbox>>

notCcVars == <<baseVars, collected, push, splitter, config, awake, install, connect, lookup, reg>>
notCollectedVars == <<baseVars, cc, push, splitter, config, awake, install, connect, lookup, reg>>
notPushVars == <<baseVars, cc, collected, splitter, config, awake, install, connect, lookup, reg>>
besidesPush == <<cc, collected, splitter, config, awake, install, connect, lookup, reg>>
notSplitterVars == <<baseVars, cc, collected, push, config, awake, install, connect, lookup, reg>>
notConfigVars == <<baseVars, cc, collected, push, splitter, awake, install, connect, lookup, reg>>
notAwakeVars == <<baseVars, cc, collected, push, splitter, config, install, connect, lookup, reg>>
notInstallVars == <<baseVars, cc, collected, push, splitter, config, awake, connect, lookup, reg>>
notConnectVars == <<baseVars, cc, collected, push, splitter, config, awake, install, lookup, reg>>
besidesConnect == <<cc, collected, push, splitter, config, awake, install, lookup, reg>>
notLookupVars == <<baseVars, cc, collected, push, splitter, config, awake, install, connect, reg>>
besidesLookup == <<cc, collected, push, splitter, config, awake, install, connect, reg>>
notRegVars == <<baseVars, cc, collected, push, splitter, config, awake, install, connect, lookup>>
besidesReg == <<cc, collected, push, splitter, config, awake, install, connect, lookup>>

\* The state of the programs that run elsewhere (the browser client) and of
\* the other services of the server.
elsewhere == <<muxVars, listVars, restVars>>

\* What no operation of a WebsocketProxy session changes.
outside == <<horizon, mapping, syncState, peerVars, elsewhere>>

vars == <<now, horizon, proxy, upstream, ws, disk, pending, last, ghost,
          mapping, syncState, peers, sessions, delivered,
          socket, chan, microtasks, muxGhost, dls, calls, inbox, cc, collected, push, splitter, config, awake, install, connect, lookup, reg>>

\* ------------------------------------------------- WebsocketProxy methods
\* Each method is a function from the object (and the clock) to the object.

stopPlayback(p, resetProgress) ==
    [p EXCEPT !.playbackTimers = {},
              !.timeouts = @ \ p.playbackFinishTimer,
              !.playbackFinishTimer = {},
              !.playbackStart = 0,
              !.playbackPaused = IF resetProgress THEN FALSE ELSE @,
              !.playbackElapsed = IF resetProgress THEN 0 ELSE @]

LastAt(messages) ==
    IF Len(messages) > 0 THEN messages[Len(messages)].at ELSE 0

updateStatus(p, state, recordId, offsetMs, t) ==
    LET p1 == [p EXCEPT !.currentState = state]
    IN  IF p.sessionId = None THEN p1
        ELSE
          LET p2 == [p1 EXCEPT !.status = Some(state)]
          IN  IF state = "run" /\ p.playback # None
              THEN LET finishMs ==
                          Max(0, LastAt(p.playback[1].messages) - offsetMs
                                   + FinishDelay)
                       timer == [due |-> t + finishMs, recordId |-> recordId]
                   IN  IF finishMs > 0
                       THEN [p2 EXCEPT !.playbackFinishTimer = {timer},
                                       !.timeouts = @ \cup {timer}]
                       ELSE p2
              ELSE p2

schedulePlayback(p, playback, offsetMs, t) ==
    LET p1 == stopPlayback(p, TRUE)
        p2 == [p1 EXCEPT !.playback = Some(playback), !.playbackStart = t]
        p3 == updateStatus(p2, "run", Some(playback.id), offsetMs, t)
    IN  [p3 EXCEPT !.playbackTimers =
            { [idx |-> i,
               due |-> t + Max(0, playback.messages[i].at - offsetMs),
               message |-> playback.messages[i]] :
              i \in { j \in 1..Len(playback.messages) :
                        ~(playback.messages[j].at < offsetMs) } }]

startPlayback(p, playback, rs, t) ==
    LET targetPlayback == IF playback # None THEN playback ELSE p.playback
    IN  IF targetPlayback = None \/ ~p.remoteSocket \/ rs # "open"
        THEN p
        ELSE schedulePlayback(
                 [p EXCEPT !.playbackElapsed = 0, !.playbackPaused = FALSE,
                           !.playback = targetPlayback],
                 targetPlayback[1], 0, t)

pausePlayback(p, t) ==
    IF p.playback = None \/ p.playbackPaused THEN p
    ELSE LET p1 == IF p.playbackStart # 0
                   THEN [p EXCEPT !.playbackElapsed = @ + (t - p.playbackStart)]
                   ELSE p
             p2 == stopPlayback(p1, FALSE)
             p3 == [p2 EXCEPT !.playbackPaused = TRUE]
         IN  updateStatus(p3, "pause", Some(p.playback[1].id), 0, t)

resumePlayback(p, rs, t) ==
    IF p.playback = None \/ ~p.playbackPaused \/ ~p.remoteSocket \/ rs # "open"
    THEN p
    ELSE schedulePlayback([p EXCEPT !.playbackPaused = FALSE],
                          p.playback[1], p.playbackElapsed, t)

RECURSIVE Reverse(_)
Reverse(q) == IF q = <<>> THEN <<>> ELSE Append(Reverse(Tail(q)), Head(q))

flushSentLastFirst(p) == IF p.remoteSocket THEN Reverse(p.storage) ELSE <<>>

\* flush: what is written upstream, and the object afterwards.
flushSent(p) == IF p.remoteSocket THEN p.storage ELSE <<>>
flushCloses(p) == p.remoteSocket /\ p.released
flushKeepsQueue(p) == IF p.remoteSocket THEN [p EXCEPT !.storage = <<>>] ELSE p

flush(p) == [p EXCEPT !.storage = <<>>]

\* The object after the constructor and the synchronous part of init().
NewProxy(sessionId, recordId, replayId, t) ==
    LET p0 == [remoteSocket |-> FALSE, released |-> FALSE, storage |-> <<>>,
               recordId |-> recordId, replayId |-> replayId,
               sessionId |-> sessionId, activeRecordId |-> None,
               playbackFinishTimer |-> {}, playbackStart |-> 0,
               playbackElapsed |-> 0, recordingPaused |-> FALSE,
               playbackPaused |-> FALSE, remoteUrl |-> TRUE,
               recorder |-> None, playback |-> None, playbackTimers |-> {},
               currentState |-> "stop",
               timeouts |-> {}, status |-> None]
        p1 == updateStatus(p0, "stop", None, 0, t)
    IN  IF recordId # None
        THEN updateStatus([p1 EXCEPT !.recorder = Some(NewRecorder(recordId[1], t)),
                                     !.activeRecordId = recordId],
                          "record", recordId, 0, t)
        ELSE p1

\* fs.promises.writeFile of a recording.
WriteFile(d, file) ==
    IF file.id \in DOMAIN d THEN [d EXCEPT ![file.id] = Some(file)] ELSE d

\* ------------------------------------------------------------------ ghost
\* What the properties need to remember and the program does not keep.
NewPlaybackGhost(g) == [g EXCEPT !.played = {}, !.rewritten = {}, !.playTicks = 0]
Queued(g, p) == IF p.remoteSocket THEN g ELSE [g EXCEPT !.queued = @ + 1]

NewRecorderGhost(g) ==
    [g EXCEPT !.recPaused = FALSE, !.pausedTicks = 0, !.expectedAt = <<>>,
              !.ignored = 0]

\* The state before the pause is remembered while the session is paused.
Remember(g, p) ==
    IF p.currentState = "pause" THEN g ELSE [g EXCEPT !.prePause = "none"]

\* The player is running: a playback is scheduled and not paused.
Playing(p) == p.playback # None /\ p.playbackStart # 0 /\ ~p.playbackPaused

\* startPlayback() passes its guard and schedules from offset 0.
PlaybackStarts(p, playback, rs) ==
    /\ (playback # None \/ p.playback # None)
    /\ p.remoteSocket
    /\ rs = "open"

Reachable == proxy.sessionId # None /\ ~proxy.released

Outcome(op, ok) == [op |-> op, res |-> IF ok THEN "ok" ELSE "error"]
Suspended(op) == [op |-> op, res |-> "pending"]

\* A suspended call: what it awaits, who called, the file persist() is
\* writing, the id load() is reading.
Continuation(op, via, file, id) ==
    [op |-> op, via |-> via, file |-> file, id |-> id]

\* The control calls that are suspended in an await.
Calls == { c \in pending : c.op # "init" }

\* ws.close(code, reason) on the downstream socket.
Close(w, code, reason) ==
    IF w.readyState = "open"
    THEN [readyState |-> "closing", code |-> code, reason |-> reason]
    ELSE w

\* The frame that arrives next.
NextFrames == { Frame(Len(ghost.received) + 1) }

\* Construction options <<session, recordId, replayId>>; recording 1 is on
\* disk when the server starts and recording 2 is not.
Options ==
    { <<Some("A"), None, None>>, <<Some("A"), Some(2), None>>,
      <<Some("A"), None, Some(1)>>, <<Some("A"), Some(2), Some(1)>>,
      <<None, Some(2), Some(1)>>, <<None, None, Some(2)>> }

RecorderOptions == { o \in Options : o[1] # None /\ o[3] = None }

PlayerOptions == { o \in Options : o[1] # None /\ o[2] = None }

\* The sockets that subscribe to the device list.
MaxSubscribers == 2
Subscribers == 1..MaxSubscribers

\* ControlCenter.defaultWaitAfterError, in milliseconds.
defaultWaitAfterError == 1000

\* WebSocket.readyState and MuxChannel.readyState.
CONNECTING == 0
OPEN == 1
CLOSING == 2
CLOSED == 3

\* The session objects that run side by side, and the session id of each.
\* The sessions of the registry model: two clients connect with the same
\* session id, one after the other, and a third with another id.
RegObjs == {"old", "new", "other"}
RegSid(o) == IF o = "other" THEN <<"b">> ELSE <<"a">>

Objs == {"p", "q", "r"}
SidOf(o) == IF o = "p" THEN <<"a">> ELSE IF o = "q" THEN <<"b">> ELSE <<"c">>
Sids == { SidOf(o) : o \in Objs }

\* ------------------------------------------------------------------- init
Init(options, maxTime) ==
    /\ now = 1
    /\ horizon = maxTime
    /\ \E o \in options :
        LET sessionId == o[1]
            recordId == o[2]
            replayId == o[3]
        IN
          /\ proxy = NewProxy(sessionId, recordId, replayId, 1)
          /\ upstream = [readyState |-> IF replayId = None THEN "connecting"
                                        ELSE "none",
                         sent |-> <<>>]
          /\ pending = IF replayId = None THEN {}
                       ELSE {Continuation("init", "init", None, replayId)}
    /\ ws = [readyState |-> "open", code |-> 0, reason |-> ""]
    /\ disk = [i \in NamedIds |-> IF i = DemoRecording.id
                                   THEN Some(DemoRecording) ELSE None]
    /\ last = Outcome("createProxy", TRUE)
    /\ mapping = <<>>
    /\ syncState = [targets |-> <<>>, devices |-> <<>>]
    /\ peers = [o \in Objs |-> None]
    /\ sessions = [sid \in Sids |-> None]
    /\ delivered = [o \in Objs |-> <<>>]
    /\ socket = [readyState |-> CONNECTING, sent |-> <<>>]
    /\ chan = <<>>
    /\ microtasks = <<>>
    /\ muxGhost = [sent |-> <<>>, local |-> {}]
    /\ dls = [sockets |-> {}, trackerInit |-> FALSE, tracker |-> 0,
              trackers |-> <<>>, trackerRestartTimer |-> FALSE,
              refreshing |-> FALSE, pending |-> FALSE,
              deviceIdsCache |-> None, triggers |-> 0,
              events |-> 0, answered |-> 0]
    /\ calls = [quick |-> 0, refresh |-> None]
    /\ inbox = [s \in Subscribers |-> <<>>]
    /\ cc = [initialized |-> FALSE, tracker |-> 0,
            waitAfterError |-> defaultWaitAfterError,
            restartTimeoutId |-> FALSE, timer |-> FALSE, started |-> FALSE,
            trackers |-> <<>>, inits |-> <<>>, deviceMap |-> {}]
    /\ collected = None
    /\ push = [pc |-> "idle", size |-> 0, session |-> 0, ch |-> 0, pushId |-> 0,
              offset |-> 0, listening |-> FALSE, acked |-> 0]
    /\ splitter = [units |-> <<>>, fed |-> 0, buf |-> <<>>, seen |-> FALSE,
                  emitted |-> <<>>, inside |-> FALSE]
    /\ config = [c |-> None, wire |-> None, parsed |-> None]
    /\ awake = [timers |-> 0, made |-> <<>>, calls |-> <<>>, stayon |-> FALSE,
               offs |-> 0, clock |-> 0]
    /\ install = None
    /\ connect = [preferences |-> {}, stage |-> "idle", device |-> <<>>, type |-> "",
                  uuid |-> <<>>, collect |-> None, results |-> <<>>,
                  disconnecting |-> {}, posts |-> 0, responses |-> <<>>]
    /\ lookup = [serialCache |-> {}, ipCache |-> {}, serial |-> None, ip |-> None,
                 made |-> 0, answers |-> {}]
    /\ reg = [objs |-> [o \in RegObjs |-> None], sessions |-> {},
              statuses |-> {}]
    /\ ghost = [received |-> <<>>, prePause |-> "none", recPaused |-> FALSE,
                pausedTicks |-> 0, expectedAt |-> <<>>, ignored |-> 0,
                played |-> {}, rewritten |-> {}, playTicks |-> 0,
                queued |-> 0]

\* init() resumes after `await ActionRecorder.load(replayId)`.
InitLoaded ==
    \E c \in pending :
        /\ c.op = "init"
        /\ disk[c.id[1]] # None
        /\ proxy' = [proxy EXCEPT !.playback = Some(load(disk[c.id[1]][1]))]
        /\ upstream' = [upstream EXCEPT !.readyState = "connecting"]
        /\ pending' = pending \ {c}
        /\ UNCHANGED <<now, outside, ws, disk, last, ghost>>

\* load() throws: createProxy's catch closes the downstream socket.
InitLoadFailed ==
    \E c \in pending :
        /\ c.op = "init"
        /\ disk[c.id[1]] = None
        /\ ws' = Close(ws, CloseInitFailed, "failed-to-start")
        /\ pending' = pending \ {c}
        /\ UNCHANGED <<now, outside, proxy, upstream, disk, last, ghost>>

\* ------------------------------------------------------- upstream socket
\* remoteSocket.onopen
UpstreamOpen ==
    /\ upstream.readyState = "connecting"
    /\ LET p1 == [proxy EXCEPT !.remoteSocket = TRUE]
           rs == IF flushCloses(p1) THEN "closing" ELSE "open"
       IN  /\ upstream' = [readyState |-> rs,
                           sent |-> upstream.sent \o flushSent(p1)]
           /\ proxy' = startPlayback(flush(p1), None, rs, now)
           /\ ghost' = Remember(IF PlaybackStarts(flush(p1), None, rs)
                                 THEN NewPlaybackGhost(ghost) ELSE ghost,
                                 proxy')
    /\ UNCHANGED <<now, outside, ws, disk, pending, last>>

closeCodeAlwaysAbnormal(wasClean) == CloseUpstreamClosed

\* The code remoteSocket.onclose passes to ws.close.
closeCode(wasClean) == IF wasClean THEN CloseNormal ELSE CloseUpstreamClosed

\* remoteSocket.onclose
UpstreamClose(wasClean) ==
    /\ upstream.readyState \in {"connecting", "open", "closing"}
    /\ wasClean => upstream.readyState \in {"open", "closing"}
    /\ upstream' = [upstream EXCEPT !.readyState = "closed"]
    /\ ws' = Close(ws, closeCode(wasClean), "")
    /\ UNCHANGED <<now, outside, proxy, disk, pending, last, ghost>>

\* remoteSocket.onerror
UpstreamError ==
    /\ upstream.readyState \in {"connecting", "open"}
    /\ upstream' = [upstream EXCEPT !.readyState = "closing"]
    /\ ws' = Close(ws, CloseUpstreamError, "e.message")
    /\ UNCHANGED <<now, outside, proxy, disk, pending, last, ghost>>

\* ----------------------------------------------------- downstream socket
\* The downstream socket closes and the session is released.
DownstreamClose ==
    /\ ws.readyState \in {"open", "closing"}
    /\ ~proxy.released
    /\ ws' = [ws EXCEPT !.readyState = "closed"]
    /\ LET p1 == stopPlayback([proxy EXCEPT !.released = TRUE], TRUE)
           p2 == flush(p1)
       IN  /\ proxy' = IF proxy.sessionId # None
                       THEN [p2 EXCEPT !.status = None] ELSE p2
           /\ upstream' =
                [readyState |-> IF flushCloses(p1) /\ upstream.readyState = "open"
                                THEN "closing" ELSE upstream.readyState,
                 sent |-> upstream.sent \o
                          (IF upstream.readyState = "open" THEN flushSent(p1)
                           ELSE <<>>)]
    /\ pending' = IF proxy.recorder # None
                  THEN pending \cup
                       {Continuation("persistRecording", "release",
                                     Some(RecordingOf(proxy.recorder[1])), None)}
                  ELSE pending
    /\ ghost' = NewPlaybackGhost(NewRecorderGhost(ghost))
    /\ mapping' = IF proxy.sessionId # None THEN <<>> ELSE mapping
    /\ UNCHANGED <<now, horizon, syncState, peerVars, elsewhere, disk, last>>

\* Writing to the upstream socket: a frame sent to a socket that is not OPEN
\* is dropped.
Send(u, data) ==
    IF u.readyState = "open" THEN [u EXCEPT !.sent = Append(@, data)] ELSE u

onSocketMessageRecorder(p, data, t) ==
    IF ~p.recordingPaused /\ p.recorder # None
    THEN [p EXCEPT !.recorder = Some(capture(p.recorder[1], data, t))]
    ELSE p

onSocketMessage(data) ==
    /\ ws.readyState = "open"
    /\ ~proxy.released
    /\ Len(ghost.received) < MaxFrames
    /\ LET p1 == onSocketMessageRecorder(proxy, data, now)
       IN  IF p1.remoteSocket
           THEN /\ upstream' = Send(upstream, data)
                /\ proxy' = p1
           ELSE /\ proxy' = [p1 EXCEPT !.storage = Append(@, data)]
                /\ UNCHANGED upstream
    /\ ghost' =
         LET g1 == Queued([ghost EXCEPT !.received = Append(@, data)], proxy)
         IN  IF proxy.recorder = None THEN g1
             ELSE IF ghost.recPaused THEN [g1 EXCEPT !.ignored = 1]
             ELSE [g1 EXCEPT !.expectedAt =
                      Append(@, (now - proxy.recorder[1].startedAt)
                                  - ghost.pausedTicks)]
    /\ UNCHANGED <<now, outside, ws, disk, pending, last>>

forwardFromSync(data) ==
    /\ Reachable
    /\ Len(ghost.received) < MaxFrames
    /\ IF proxy.remoteSocket
       THEN /\ upstream' = Send(upstream, data)
            /\ UNCHANGED proxy
       ELSE /\ proxy' = [proxy EXCEPT !.storage = Append(@, data)]
            /\ UNCHANGED upstream
    /\ ghost' = Queued([ghost EXCEPT !.received = Append(@, data)], proxy)
    /\ UNCHANGED <<now, outside, ws, disk, pending, last>>

\* ------------------------------------------------------- control operations
\* The HTTP action surface finds the session with getBySession and calls one
\* of these.  A call that throws changes `last` only.
Throws(op) ==
    /\ last' = Outcome(op, FALSE)
    /\ UNCHANGED <<now, outside, proxy, upstream, ws, disk, pending, ghost>>

startRecordingAllowedAnyState(p) == p.remoteUrl

startRecordingAllowed(p) == p.remoteUrl /\ p.currentState = "stop"

startRecording(recordId) ==
    /\ Reachable
    /\ IF ~startRecordingAllowed(proxy)
       THEN Throws("startRecording")
       ELSE /\ proxy.recorder # None => Cardinality(Calls) < MaxPending
            /\ pending' = IF proxy.recorder # None
                          THEN pending \cup
                               {Continuation("persistRecording", "startRecording",
                                             Some(RecordingOf(proxy.recorder[1])),
                                             None)}
                          ELSE pending
            /\ LET resolvedId == IF recordId # None THEN recordId[1]
                                 ELSE CreateId(now)
                   p1 == [proxy EXCEPT
                            !.recorder = Some(NewRecorder(resolvedId, now)),
                            !.activeRecordId = Some(resolvedId)]
                   p2 == updateStatus(p1, "record", Some(resolvedId), 0, now)
               IN  proxy' = [p2 EXCEPT !.recordingPaused = FALSE]
            /\ ghost' = NewRecorderGhost(ghost)
            /\ last' = Outcome("startRecording", TRUE)
            /\ UNCHANGED <<now, outside, upstream, ws, disk>>

\* stopRecording() up to `await recorder.persist()`, called as `via`.
stopRecordingCall(via) ==
    IF proxy.recorder = None
       \/ (proxy.currentState # "record" /\ proxy.currentState # "pause")
    THEN Throws(via)
    ELSE /\ Cardinality(Calls) < MaxPending
         /\ proxy' = [proxy EXCEPT !.recorder = None, !.recordingPaused = FALSE]
         /\ pending' = pending \cup
                {Continuation("stopRecording", via,
                              Some(RecordingOf(proxy.recorder[1])), None)}
         /\ ghost' = NewRecorderGhost(ghost)
         /\ last' = Suspended(via)
         /\ UNCHANGED <<now, outside, upstream, ws, disk>>

stopRecording ==
    /\ Reachable
    /\ stopRecordingCall("stopRecording")

stop ==
    /\ Reachable
    /\ IF proxy.recorder # None
       THEN stopRecordingCall("stop")
       ELSE IF proxy.playback # None
       THEN /\ proxy' = updateStatus(
                           [stopPlayback(proxy, TRUE) EXCEPT !.playback = None],
                           "stop", Some(proxy.playback[1].id), 0, now)
            /\ last' = Outcome("stop", TRUE)
            /\ ghost' = Remember(NewPlaybackGhost(ghost), proxy')
            /\ UNCHANGED <<now, outside, upstream, ws, disk, pending>>
       ELSE Throws("stop")

\* stopRecording() resumes after `await recorder.persist()`: the file is
\* written, or persist() throws.
stopRecordingDone(written) ==
    \E c \in pending :
        /\ c.op = "stopRecording"
        /\ pending' = pending \ {c}
        /\ IF written
           THEN /\ disk' = WriteFile(disk, c.file[1])
                /\ proxy' = updateStatus([proxy EXCEPT !.activeRecordId = None],
                                         "stop", proxy.activeRecordId, 0, now)
                /\ last' = Outcome(c.via, TRUE)
           ELSE /\ last' = Outcome(c.via, FALSE)
                /\ UNCHANGED <<proxy, disk>>
        /\ ghost' = Remember(ghost, proxy')
        /\ UNCHANGED <<now, outside, upstream, ws>>

\* persistRecording() resumes: the file is written, or the error is logged.
persistRecording(written) ==
    \E c \in pending :
        /\ c.op = "persistRecording"
        /\ pending' = pending \ {c}
        /\ disk' = IF written
                   THEN WriteFile(disk, c.file[1])
                   ELSE disk
        /\ UNCHANGED <<now, outside, proxy, upstream, ws, last, ghost>>

runRecordingAllowed(p) == p.currentState = "stop"

\* runRecording() up to `await ActionRecorder.load(recordId)`.
runRecording(recordId) ==
    /\ Reachable
    /\ IF ~runRecordingAllowed(proxy)
       THEN Throws("runRecording")
       ELSE /\ Cardinality(Calls) < MaxPending
            /\ pending' = pending \cup
                   {Continuation("runRecording", "runRecording", None,
                                 Some(recordId))}
            /\ last' = Suspended("runRecording")
            /\ UNCHANGED <<now, outside, proxy, upstream, ws, disk, ghost>>

\* runRecording() resumes after the load.
runRecordingLoaded ==
    \E c \in pending :
        /\ c.op = "runRecording"
        /\ pending' = pending \ {c}
        /\ IF disk[c.id[1]] = None
           THEN /\ last' = Outcome("runRecording", FALSE)
                /\ UNCHANGED <<proxy, ghost>>
           ELSE LET recording == load(disk[c.id[1]][1])
                    p1 == stopPlayback(proxy, TRUE)
                    p2 == updateStatus(p1, "run", Some(recording.id), 0, now)
                IN  /\ proxy' = startPlayback(p2, Some(recording),
                                              upstream.readyState, now)
                    /\ ghost' = Remember(
                                  IF PlaybackStarts(p2, Some(recording),
                                                    upstream.readyState)
                                  THEN NewPlaybackGhost(ghost) ELSE ghost,
                                  proxy')
                    /\ last' = Outcome("runRecording", TRUE)
        /\ UNCHANGED <<now, outside, upstream, ws, disk>>

pause ==
    /\ Reachable
    /\ IF proxy.currentState = "pause" \/ proxy.currentState = "stop"
       THEN Throws("pause")
       ELSE IF proxy.recorder # None /\ ~proxy.recordingPaused
       THEN /\ proxy' = updateStatus(
                  [proxy EXCEPT !.recordingPaused = TRUE,
                                !.recorder = Some(RecorderPause(proxy.recorder[1], now))],
                  "pause", proxy.activeRecordId, 0, now)
            /\ ghost' = [ghost EXCEPT !.recPaused = TRUE,
                                      !.prePause = proxy.currentState]
            /\ last' = Outcome("pause", TRUE)
            /\ UNCHANGED <<now, outside, upstream, ws, disk, pending>>
       ELSE IF proxy.playback # None /\ ~proxy.playbackPaused
       THEN /\ proxy' = pausePlayback(proxy, now)
            /\ ghost' = [ghost EXCEPT !.prePause = proxy.currentState]
            /\ last' = Outcome("pause", TRUE)
            /\ UNCHANGED <<now, outside, upstream, ws, disk, pending>>
       ELSE Throws("pause")

resume ==
    /\ Reachable
    /\ IF proxy.currentState # "pause"
       THEN Throws("resume")
       ELSE IF proxy.recorder # None /\ proxy.recordingPaused
       THEN /\ proxy' = updateStatus(
                  [proxy EXCEPT !.recordingPaused = FALSE,
                                !.recorder = Some(RecorderResume(proxy.recorder[1], now))],
                  "record", proxy.activeRecordId, 0, now)
            /\ ghost' = Remember([ghost EXCEPT !.recPaused = FALSE], proxy')
            /\ last' = Outcome("resume", TRUE)
            /\ UNCHANGED <<now, outside, upstream, ws, disk, pending>>
       ELSE IF proxy.playback # None /\ proxy.playbackPaused
       THEN /\ proxy' = resumePlayback(proxy, upstream.readyState, now)
            /\ last' = Outcome("resume", TRUE)
            /\ ghost' = Remember(ghost, proxy')
            /\ UNCHANGED <<now, outside, upstream, ws, disk, pending>>
       ELSE Throws("resume")

\* ------------------------------------------------------------------ timers
\* A timer fires when it is due (any other event of the same millisecond can
\* come first); timers fire in the order they are due, and timers due
\* together in the order they were set.
FirstDue(tm) ==
    \A o \in proxy.playbackTimers :
        tm.due < o.due \/ (tm.due = o.due /\ tm.idx <= o.idx)

\* The callback of a message timer set by schedulePlayback.
playbackTimerFires ==
    \E tm \in proxy.playbackTimers :
        /\ tm.due <= now
        /\ FirstDue(tm)
        /\ proxy' = [proxy EXCEPT !.playbackTimers = @ \ {tm}]
        /\ IF proxy.remoteSocket /\ upstream.readyState = "open"
           THEN LET w == [idx |-> tm.idx, payload |-> decodeMessage(tm.message)]
                IN  ghost' = [ghost EXCEPT
                                !.played = @ \cup {w},
                                !.rewritten =
                                    IF w \in ghost.played
                                       /\ tm.message.at < ghost.playTicks
                                    THEN @ \cup {w} ELSE @]
           ELSE UNCHANGED ghost
        /\ UNCHANGED <<now, outside, upstream, ws, disk, pending, last>>

\* The callback of the finish timer set by updateStatus('run').  The handle
\* of a timer that has fired is inert (clearTimeout on it does nothing), so
\* it is dropped from playbackFinishTimer here.
finishTimerFires ==
    \E tm \in proxy.timeouts :
        /\ tm.due <= now
        /\ \A o \in proxy.playbackTimers : o.due > tm.due
        /\ proxy' = updateStatus(
                        [proxy EXCEPT !.timeouts = @ \ {tm},
                                      !.playbackFinishTimer = @ \ {tm}],
                        "stop", tm.recordId, 0, now)
        /\ ghost' = Remember(NewPlaybackGhost(ghost), proxy')
        /\ UNCHANGED <<now, outside, upstream, ws, disk, pending, last>>

\* Time passes once every timer that is due has fired.
Tick ==
    /\ now < horizon
    /\ \A tm \in proxy.playbackTimers \cup proxy.timeouts : tm.due > now
    /\ now' = now + 1
    /\ ghost' = [ghost EXCEPT
                    !.pausedTicks = IF ghost.recPaused THEN @ + 1 ELSE @,
                    !.playTicks = IF Playing(proxy) THEN @ + 1 ELSE @]
    /\ UNCHANGED <<outside, proxy, upstream, ws, disk, pending, last>>

\* The session and both sockets: forwarding, queueing and close propagation.
NextForward ==
    \/ InitLoaded
    \/ InitLoadFailed
    \/ UpstreamOpen
    \/ \E wasClean \in BOOLEAN : UpstreamClose(wasClean)
    \/ UpstreamError
    \/ DownstreamClose
    \/ \E data \in NextFrames : onSocketMessage(data)
    \/ \E data \in NextFrames : forwardFromSync(data)
    \/ \E written \in BOOLEAN : persistRecording(written)
    \/ pause
    \/ resume
    \/ playbackTimerFires

\* Forwarding does not depend on the clock: no time passes.
SpecForward == Init(Options, 1) /\ [][NextForward]_vars

\* A session that records: the recorder's clock and its persistence.
NextRecorder ==
    \/ UpstreamOpen
    \/ \E data \in NextFrames : onSocketMessage(data)
    \/ \E recordId \in {None, Some(2)} : startRecording(recordId)
    \/ stopRecording
    \/ stop
    \/ \E written \in BOOLEAN : stopRecordingDone(written)
    \/ pause
    \/ resume
    \/ Tick

SpecRecorder == Init(RecorderOptions, MaxTimeRecorder) /\ [][NextRecorder]_vars

\* A session that replays: the player and its timers.
NextPlayer ==
    \/ InitLoaded
    \/ UpstreamOpen
    \/ UpstreamError
    \/ \E recordId \in NamedIds : runRecording(recordId)
    \/ runRecordingLoaded
    \/ stop
    \/ pause
    \/ resume
    \/ playbackTimerFires
    \/ finishTimerFires
    \/ Tick

SpecPlayer == Init(PlayerOptions, MaxTimePlayer) /\ [][NextPlayer]_vars

\* Every control operation on a session that may record and replay at once.
NextControl ==
    \/ InitLoaded
    \/ UpstreamOpen
    \/ UpstreamError
    \/ \E recordId \in {Some(2)} : startRecording(recordId)
    \/ stopRecording
    \/ stop
    \/ \E written \in BOOLEAN : stopRecordingDone(written)
    \/ \E written \in BOOLEAN : persistRecording(written)
    \/ \E recordId \in NamedIds : runRecording(recordId)
    \/ runRecordingLoaded
    \/ pause
    \/ resume
    \/ playbackTimerFires
    \/ finishTimerFires
    \/ Tick

SpecControl == Init(Options, MaxTimeControl) /\ [][NextControl]_vars

TypeOK ==
    /\ now \in 1..horizon
    /\ proxy.currentState \in {"stop", "record", "run", "pause"}

\* ------------------------------------------------------------- properties
RecorderActive == proxy.recorder # None

\* The player is active while a timer of it is pending or it is paused.
PlayerActive ==
    /\ proxy.playback # None
    /\ (proxy.playbackTimers # {} \/ proxy.timeouts # {} \/ proxy.playbackPaused)

RecorderPaused == RecorderActive /\ proxy.recordingPaused
PlayerPaused == PlayerActive /\ proxy.playbackPaused

\* No control call is suspended and the session is live.
Quiescent == pending = {} /\ ~proxy.released

\* C1: in every reachable state of a session, state = stop exactly when
\* neither a recorder nor a player is active, record exactly when a recorder
\* is present and not paused, pause exactly when exactly one of recorder and
\* player is paused, run exactly when a player is present and not paused
\* (stated for the states in which no control call is suspended).
C1_StateMatchesRecorderAndPlayer ==
    Quiescent =>
      /\ (proxy.currentState = "stop") <=> (~RecorderActive /\ ~PlayerActive)
      /\ (proxy.currentState = "record")
            <=> (RecorderActive /\ ~proxy.recordingPaused)
      /\ (proxy.currentState = "pause") <=> (RecorderPaused # PlayerPaused)
      /\ (proxy.currentState = "run")
            <=> (PlayerActive /\ ~proxy.playbackPaused)

\* C2: during one playback, for any sequence of pause() and resume(), a
\* message that was written upstream and whose `at` lies before the elapsed
\* playback time is not written again after a later resume.
C2_WrittenAtMostOnce == ghost.rewritten = {}

IsPrefix(a, b) == Len(a) <= Len(b) /\ a = SubSeq(b, 1, Len(a))

C4_StopSucceeds ==
    [][(stop /\ (RecorderActive \/ PlayerActive)) => last'.res # "error"]_vars

\* C5: pause() succeeds only in state record or run, resume() only in state
\* pause, and a resume() that succeeds leaves the session in the state it had
\* before the matching pause().
C5_ResumeRestoresState ==
    [][/\ (pause /\ last'.res = "ok")
            => proxy.currentState \in {"record", "run"}
       /\ (resume /\ last'.res = "ok")
            => (/\ proxy.currentState = "pause"
                /\ proxy'.currentState = ghost.prePause)]_vars

\* C6: startRecording() and runRecording() called in a state other than stop
\* fail with an error and leave the session (state, recorder, loaded
\* playback, timers), the suspended calls and the disk unchanged.
C6_BusyCallsRejected ==
    [][(/\ proxy.currentState # "stop"
        /\ \/ \E recordId \in {None, Some(2)} : startRecording(recordId)
           \/ \E recordId \in NamedIds : runRecording(recordId))
         => (/\ last'.res = "error"
             /\ UNCHANGED <<proxy, pending, disk, upstream>>)]_vars

\* startRecording() was rejected while a playback is running.
C6_Witness ==
    /\ last = Outcome("startRecording", FALSE)
    /\ proxy.currentState = "run"
    /\ proxy.playbackTimers # {}

Ats(messages) == [i \in 1..Len(messages) |-> messages[i].at]

\* C7: a frame that arrives while the recorder is paused is not captured, and
\* the `at` of each captured frame is the time since the recording started
\* minus the time spent paused, so `at` never decreases along a recording;
\* and frames at 100 ms and 600 ms with a pause from 200 ms to 500 ms are
\* stored with `at` 100 and 300.
C7_CaptureClock ==
    /\ (RecorderActive /\ ~proxy.released) =>
         LET ats == Ats(proxy.recorder[1].messages)
         IN  /\ ats = ghost.expectedAt
             /\ \A i \in 1..(Len(ats) - 1) : ats[i] <= ats[i + 1]
    /\ LET r1 == capture(NewRecorder(2, now), Frame(1), now + 1)
           r2 == RecorderResume(RecorderPause(r1, now + 2), now + 5)
           r3 == capture(r2, Frame(2), now + 6)
       IN  Ats(r3.messages) = <<1, 3>>

\* Frames at 100 ms and 300 ms with a pause from 100 ms to 200 ms, during
\* which a frame arrived: the recording holds `at` 100 and 200.
C7_Witness ==
    /\ RecorderActive
    /\ Ats(proxy.recorder[1].messages) = <<1, 2>>
    /\ proxy.recorder[1].pausedDuration = 1
    /\ ghost.ignored = 1
    /\ now - proxy.recorder[1].startedAt = 3

\* C8: a playback that has started and is neither paused nor stopped returns
\* the session to state stop: while it runs, the finish timer is pending.
C8_FinishTimerPending ==
    (proxy.currentState = "run" /\ Playing(proxy)) => proxy.timeouts # {}

\* C9: when writing the recording file fails during stopRecording() or
\* stop(), the session does not remain in state record or pause without a
\* recorder.
C9_UsableAfterPersistFailure ==
    Quiescent =>
      ~(proxy.currentState \in {"record", "pause"} /\ ~RecorderActive)

\* C10: when the upstream socket closes, the open downstream socket is
\* closed with code 4010 (a clean close and a close before OPEN included);
\* when it errors, with code 4011 and the error message.
C10_UpstreamCloseIs4010 ==
    [][/\ ((\E wasClean \in BOOLEAN : UpstreamClose(wasClean))
              /\ ws.readyState = "open")
            => (ws'.readyState = "closing" /\ ws'.code = 4010)
       /\ (UpstreamError /\ ws.readyState = "open")
            => (/\ ws'.readyState = "closing"
                /\ ws'.code = 4011
                /\ ws'.reason = "e.message")]_vars

\* C10 as amended: when the upstream socket closes, the open downstream
\* socket is closed with code 1000 if the close was clean and with code 4010
\* if it was not (a close before OPEN included); when it errors, with code
\* 4011 and the error message.
C10_UpstreamClosePropagates ==
    [][/\ \A wasClean \in BOOLEAN :
            (UpstreamClose(wasClean) /\ ws.readyState = "open")
              => (/\ ws'.readyState = "closing"
                  /\ ws'.code = IF wasClean THEN 1000 ELSE 4010)
       /\ (UpstreamError /\ ws.readyState = "open")
            => (/\ ws'.readyState = "closing"
                /\ ws'.code = 4011
                /\ ws'.reason = "e.message")]_vars

\* Upstream closed before it ever reached OPEN and downstream is being
\* closed with 4010.
C10_Witness ==
    /\ ~proxy.remoteSocket
    /\ upstream.readyState = "closed"
    /\ ws.readyState = "closing"
    /\ ws.code = 4010

\* ------------------------------------------------------------ SyncService
MaxList == 2

\* A string is the sequence of its characters; a value in a request body is
\* a string or something else.
Str(chars) == [isString |-> TRUE, chars |-> chars]
NotAString == [isString |-> FALSE, chars |-> <<>>]

RECURSIVE TrimStart(_)
TrimStart(s) ==
    IF s # <<>> /\ Head(s) = " " THEN TrimStart(Tail(s)) ELSE s

RECURSIVE TrimEnd(_)
TrimEnd(s) ==
    IF s # <<>> /\ s[Len(s)] = " "
    THEN TrimEnd(SubSeq(s, 1, Len(s) - 1)) ELSE s

\* String.prototype.trim
trim(s) == TrimEnd(TrimStart(s))

\* list.map((t) => (typeof t === 'string' ? t.trim() : ''))
Trimmed(list) ==
    [i \in 1..Len(list) |->
        IF list[i].isString THEN trim(list[i].chars) ELSE <<>>]

\* .filter(Boolean): the empty string is dropped.
RECURSIVE FilterBoolean(_)
FilterBoolean(list) ==
    IF list = <<>> THEN <<>>
    ELSE IF Head(list) = <<>> THEN FilterBoolean(Tail(list))
    ELSE <<Head(list)>> \o FilterBoolean(Tail(list))

Has(list, x) == \E i \in 1..Len(list) : list[i] = x

\* Array.from(new Set(list)): the first occurrences, in order.
RECURSIVE Unique(_)
Unique(list) ==
    IF list = <<>> THEN <<>>
    ELSE LET rest == Unique(SubSeq(list, 1, Len(list) - 1))
             x == list[Len(list)]
         IN  IF Has(rest, x) THEN rest ELSE Append(rest, x)

Cleaned(list) == Unique(FilterBoolean(Trimmed(list)))

DeleteNothing(set, x) == set

\* Set.prototype.delete
Delete(set, x) ==
    LET Other(y) == y # x IN SelectSeq(set, Other)

\* Array.isArray(target) ? target : [target]
TargetList(target) ==
    IF target.isArray THEN target.items ELSE <<target.items[1]>>

\* The mapping setMapping() builds after mapping.clear().
NewMapping(target, devices) ==
    LET cleanedTargets == Cleaned(TargetList(target))
        cleanedDevices == Cleaned(devices)
    IN  [i \in 1..Len(cleanedTargets) |->
            [target |-> cleanedTargets[i],
             receivers |-> Delete(cleanedDevices, cleanedTargets[i])]]

RECURSIVE AllReceivers(_)
AllReceivers(m) ==
    IF m = <<>> THEN <<>> ELSE Head(m).receivers \o AllReceivers(Tail(m))

\* SyncService.list
list(m) ==
    [targets |-> [i \in 1..Len(m) |-> m[i].target],
     devices |-> Unique(AllReceivers(m))]

\* mapping.get(source), the empty set when there is no entry.
Receivers(m, source) ==
    IF \E i \in 1..Len(m) : m[i].target = source
    THEN m[CHOOSE i \in 1..Len(m) : m[i].target = source].receivers
    ELSE <<>>

\* Values a caller can pass: ids with and without surrounding whitespace,
\* a blank string and a value that is not a string.
RawValues ==
    { Str(<<"a">>), Str(<<" ", "a", " ">>), Str(<<"b">>), Str(<<"c", " ">>),
      Str(<<" ">>), NotAString }

RECURSIVE Lists(_, _)
Lists(values, n) ==
    IF n = 0 THEN { <<>> }
    ELSE LET shorter == Lists(values, n - 1)
         IN  shorter \cup { Append(l, v) : l \in shorter, v \in values }

RawTargets ==
    { [isArray |-> TRUE, items |-> l] : l \in Lists(RawValues, MaxList) }
      \cup { [isArray |-> FALSE, items |-> <<v>>] : v \in RawValues }

sessionVars == <<now, horizon, proxy, upstream, ws, disk, pending, last, ghost,
                 elsewhere>>

setMapping(target, devices) ==
    /\ mapping' = NewMapping(target, devices)
    /\ syncState' = list(mapping')
    /\ UNCHANGED <<sessionVars, peerVars>>

clear ==
    /\ mapping' = <<>>
    /\ UNCHANGED <<sessionVars, syncState, peerVars>>

\* The sync endpoints of the HTTP server, called with any body.
NextSyncService ==
    \/ \E target \in RawTargets, devices \in Lists(RawValues, MaxList) :
          setMapping(target, devices)
    \/ clear

SpecSyncService ==
    Init({<<Some("A"), None, None>>}, 1) /\ [][NextSyncService]_vars

\* C12: after any sequence of setMapping and clear calls (one or several
\* targets; whitespace, duplicates, empty strings and non-strings in the
\* inputs), no source id is contained in its own follower set.
C12_SourceNotOwnFollower ==
    \A i \in 1..Len(mapping) : ~Has(mapping[i].receivers, mapping[i].target)

\* Two targets that were both named as devices: each follows the other and
\* neither follows itself.
C12_Witness ==
    mapping = << [target |-> <<"a">>, receivers |-> << <<"b">> >>],
                 [target |-> <<"b">>, receivers |-> << <<"a">> >>] >>

\* ---------------------------------------------------------- sync dispatch
\* Several sessions side by side: what a session receives from its
\* downstream socket is mirrored to its followers.
MaxSyncFrames == 2

\* new WebsocketProxy(ws, {session}) and init(remoteUrl).
NewSession(sid, t) ==
    [proxy |-> NewProxy(Some(sid), None, None, t),
     upstream |-> [readyState |-> "connecting", sent |-> <<>>],
     ws |-> [readyState |-> "open", code |-> 0, reason |-> ""]]

\* forwardFromSync(data) on the session s.
Forwarded(s, data) ==
    IF s.proxy.remoteSocket
    THEN [s EXCEPT !.upstream = Send(s.upstream, data)]
    ELSE [s EXCEPT !.proxy.storage = Append(@, data)]

\* onSocketMessage on the session s, up to the call of mirror.
Received(s, data, t) ==
    LET p1 == onSocketMessageRecorder(s.proxy, data, t)
    IN  IF p1.remoteSocket
        THEN [s EXCEPT !.proxy = p1, !.upstream = Send(s.upstream, data)]
        ELSE [s EXCEPT !.proxy = [p1 EXCEPT !.storage = Append(@, data)]]

\* WebsocketProxy.getBySession
getBySession(sid) == IF sid \in DOMAIN sessions THEN sessions[sid] ELSE None

\* The objects mirror(source, data) forwards to.
mirrorNobody(source) == {}

mirror(source) ==
    LET targets == Receivers(mapping, source)
    IN  { o \in Objs : \E i \in 1..Len(targets) :
                          getBySession(targets[i]) = Some(o) }

\* proxy.forwardFromSync(data) on the session object x, among the sessions ps.
forwardFromSyncMirrors(ps, x, data) ==
    LET ps1 == [ps EXCEPT ![x] = Some(Forwarded(ps[x][1], data))]
    IN  [y \in Objs |->
            IF \E i \in 1..Len(Receivers(mapping, SidOf(x))) :
                  getBySession(Receivers(mapping, SidOf(x))[i]) = Some(y)
            THEN Some(Forwarded(ps1[y][1], data))
            ELSE ps1[y]]

forwardFromSyncOn(ps, x, data) ==
    [ps EXCEPT ![x] = Some(Forwarded(ps[x][1], data))]

\* The loop of SyncService.mirror over the sessions found for the receivers.
RECURSIVE Mirrored(_, _, _)
Mirrored(ps, to, data) ==
    IF to = {} THEN ps
    ELSE LET x == CHOOSE x \in to : TRUE
         IN  Mirrored(forwardFromSyncOn(ps, x, data), to \ {x}, data)

\* A session that is connected: constructed and not released.
Connected(o) == peers[o] # None /\ ~peers[o][1].proxy.released

\* The connected followers of the session id `source` in the mapping.
Followers(source) ==
    { o \in Objs : Connected(o) /\ Has(Receivers(mapping, source), SidOf(o)) }

\* The number of frames the sessions have received from downstream so far.
FramesReceived ==
    Cardinality(UNION { { delivered[o][i] : i \in 1..Len(delivered[o]) } :
                        o \in Objs })

\* A client connects with ?session=<id>.
Connect(o) ==
    /\ peers[o] = None
    /\ peers' = [peers EXCEPT ![o] = Some(NewSession(SidOf(o), now))]
    /\ sessions' = [sessions EXCEPT ![SidOf(o)] = Some(o)]
    /\ UNCHANGED <<sessionVars, mapping, syncState, delivered>>

\* remoteSocket.onopen of the session o.
PeerUpstreamOpen(o) ==
    /\ peers[o] # None
    /\ peers[o][1].upstream.readyState = "connecting"
    /\ LET s == peers[o][1]
           p1 == [s.proxy EXCEPT !.remoteSocket = TRUE]
           rs == IF flushCloses(p1) THEN "closing" ELSE "open"
       IN  peers' = [peers EXCEPT ![o] = Some(
                [s EXCEPT !.upstream = [readyState |-> rs,
                                        sent |-> s.upstream.sent \o flushSent(p1)],
                          !.proxy = startPlayback(flush(p1), None, rs, now)])]
    /\ UNCHANGED <<sessionVars, mapping, syncState, sessions, delivered>>

\* remoteSocket.onclose (not clean) of the session o.
PeerUpstreamClose(o) ==
    /\ peers[o] # None
    /\ peers[o][1].upstream.readyState \in {"connecting", "open", "closing"}
    /\ LET s == peers[o][1]
       IN  peers' = [peers EXCEPT ![o] = Some(
                [s EXCEPT !.upstream.readyState = "closed",
                          !.ws = Close(s.ws, closeCode(FALSE), "")])]
    /\ UNCHANGED <<sessionVars, mapping, syncState, sessions, delivered>>

\* The downstream socket of the session o closes: release().
PeerRelease(o) ==
    /\ peers[o] # None
    /\ ~peers[o][1].proxy.released
    /\ LET s == peers[o][1]
           p1 == stopPlayback([s.proxy EXCEPT !.released = TRUE], TRUE)
           p2 == [flush(p1) EXCEPT !.status = None]
           open == s.upstream.readyState = "open"
       IN  peers' = [peers EXCEPT ![o] = Some(
                [proxy |-> p2,
                 upstream |->
                    [readyState |-> IF flushCloses(p1) /\ open
                                    THEN "closing" ELSE s.upstream.readyState,
                     sent |-> s.upstream.sent \o
                              (IF open THEN flushSent(p1) ELSE <<>>)],
                 ws |-> [s.ws EXCEPT !.readyState = "closed"]])]
    /\ sessions' = [sessions EXCEPT ![SidOf(o)] = None]
    /\ mapping' = <<>>
    /\ UNCHANGED <<sessionVars, syncState, delivered>>

\* The session o receives the next frame from its downstream socket.
PeerMessage(o) ==
    /\ Connected(o)
    /\ peers[o][1].ws.readyState = "open"
    /\ FramesReceived < MaxSyncFrames
    /\ LET data == Frame(FramesReceived + 1)
           to == mirror(SidOf(o))
       IN  /\ peers' = Mirrored(
                 [peers EXCEPT ![o] = Some(Received(peers[o][1], data, now))],
                 to, data)
           /\ delivered' = [x \in Objs |->
                 IF x = o \/ x \in Followers(SidOf(o))
                 THEN Append(delivered[x], data) ELSE delivered[x]]
    /\ UNCHANGED <<sessionVars, mapping, syncState, sessions>>

\* The mappings an operator sets: one source with two followers, or two
\* sessions that follow each other and share a third follower.
SyncRequests ==
    LET all == <<Str(<<"a">>), Str(<<"b">>), Str(<<"c">>)>>
    IN  { [target |-> [isArray |-> FALSE, items |-> <<Str(<<"a">>)>>],
           devices |-> all],
          [target |-> [isArray |-> TRUE,
                       items |-> <<Str(<<"a">>), Str(<<"b">>)>>],
           devices |-> all] }

NextSync ==
    \/ \E request \in SyncRequests :
          setMapping(request.target, request.devices)
    \/ clear
    \/ \E o \in Objs : Connect(o)
    \/ \E o \in Objs : PeerUpstreamOpen(o)
    \/ \E o \in Objs : PeerUpstreamClose(o)
    \/ \E o \in Objs : PeerRelease(o)
    \/ \E o \in Objs : PeerMessage(o)

SpecSync == Init({<<Some("A"), None, None>>}, 1) /\ [][NextSync]_vars

\* C11: every frame a source session receives from its downstream socket is
\* delivered, in the order the source received them, to the upstream of the
\* source and of each follower that is connected at that moment: it waits in
\* the follower's queue while the follower's upstream is not yet open, and
\* is written once it is.
C11_MirroredInOrder ==
    \A o \in Objs :
        Connected(o) =>
          LET s == peers[o][1]
          IN  /\ IsPrefix(s.upstream.sent, delivered[o])
              /\ ~s.proxy.remoteSocket =>
                   (s.upstream.sent = <<>> /\ s.proxy.storage = delivered[o])
              /\ s.upstream.readyState = "open" =>
                   (s.upstream.sent = delivered[o] /\ s.proxy.storage = <<>>)

\* The source p has written two frames to its own upstream, the follower q
\* has written both to its open upstream, and the follower r, whose upstream
\* is still connecting, holds both in its queue.
C11_Witness ==
    /\ Connected("p") /\ Connected("q") /\ Connected("r")
    /\ Has(Receivers(mapping, <<"a">>), <<"b">>)
    /\ Len(peers["p"][1].upstream.sent) = 2
    /\ peers["q"][1].upstream.sent = peers["p"][1].upstream.sent
    /\ peers["r"][1].upstream.readyState = "connecting"
    /\ peers["r"][1].proxy.storage = peers["p"][1].upstream.sent

\* ------------------------------------------------- suspended control calls
\* C13: control operations on one session are atomic with respect to each
\* other: a runRecording() call that was suspended loading its recording
\* takes effect only if no other call took effect in the meantime, so the
\* session does not go to state run from a state in which a recorder was
\* started (or another playback was started) after the call was admitted.
C13_ControlCallsAtomic ==
    [][(runRecordingLoaded /\ last'.res = "ok")
          => proxy.currentState = "stop"]_vars

\* ============================================================ MuxChannel
\* The client's channel multiplexer (adbStub.ts).  A frame is the sequence
\* <<type, channel id>> followed by its payload; a channel id is IdBits wide
\* (32 in the source) and TopId is the largest one (0xffffffff).
MaxChannels == 3
MaxSends == 2
IdBits == 3

TopId == 2^IdBits - 1

CreateChannel == 4
CloseChannel == 8
RawBinaryData == 16
RawStringData == 32
Data == 64

DefaultCloseCode == 1000

u32le(n) == n % (TopId + 1)

u16le(n) == n % 65536

createBuffer(type, channelId, payload) == <<type, u32le(channelId)>> \o payload

buildClosePayload(code) == <<u16le(code)>>

parse(buffer) ==
    [type |-> buffer[1], channelId |-> buffer[2],
     payload |-> SubSeq(buffer, 3, Len(buffer))]

\* What send() takes and what WebSocket#send is given: a string or bytes.
Text(bytes) == [text |-> TRUE, bytes |-> bytes]
Binary(bytes) == [text |-> FALSE, bytes |-> bytes]

\* new MuxChannel(ws, id, emitter): `ws` is 0 for the WebSocket and the
\* parent's position otherwise; `channels` holds the entries <<id, channel>>.
NewMuxChannel(parent, id, state) ==
    [ws |-> parent, id |-> id, readyState |-> state, channels |-> {},
     storage |-> <<>>, nextId |-> 0, onopen |-> None]

MapHas(map, id) == \E e \in map : e[1] = id
MapGet(map, id) == (CHOOSE e \in map : e[1] = id)[2]
MapDelete(map, id) == { e \in map : e[1] # id }
MapSet(map, id, channel) == MapDelete(map, id) \cup { <<id, channel>> }

\* The objects an operation works on: the channels, the WebSocket, the
\* microtask queue, and whether the operation has thrown.
World == [chan |-> chan, socket |-> socket, tasks |-> microtasks,
          threw |-> FALSE]

Throw(m) == [m EXCEPT !.threw = TRUE]

SetReadyState(m, h, state) == [m EXCEPT !.chan[h].readyState = state]

\* WebSocket#send: throws while CONNECTING, transmits while OPEN, discards
\* the data while CLOSING or CLOSED.
wsSend(m, data) ==
    IF m.socket.readyState = CONNECTING THEN Throw(m)
    ELSE IF m.socket.readyState = OPEN
         THEN [m EXCEPT !.socket.sent = Append(@, data)]
         ELSE m

\* WebSocket#close
wsClose(m) ==
    IF m.socket.readyState \in {CLOSING, CLOSED} THEN m
    ELSE [m EXCEPT !.socket.readyState = CLOSING]

RECURSIVE sendData(_, _, _)
RECURSIVE _send(_, _, _)

_send(m, h, data) ==
    LET c == m.chan[h]
    IN  IF c.readyState = OPEN
        THEN IF c.ws = 0 THEN wsSend(m, data)
             ELSE sendData(m, c.ws, data.bytes)
        ELSE IF c.ws = 0 /\ c.readyState = CONNECTING
             THEN [m EXCEPT !.chan[h].storage = Append(@, data)]
             ELSE Throw(m)

sendData(m, h, u8) ==
    LET c == m.chan[h]
    IN  IF c.ws # 0
        THEN sendData(m, c.ws, createBuffer(Data, c.id, u8))
        ELSE _send(m, h, Binary(u8))

send(m, h, data) ==
    LET c == m.chan[h]
    IN  IF c.ws # 0
        THEN IF data.text
             THEN sendData(m, c.ws,
                           createBuffer(RawStringData, c.id, data.bytes))
             ELSE sendData(m, c.ws,
                           createBuffer(RawBinaryData, c.id, data.bytes))
        ELSE _send(m, h, data)

\* The listener the constructor adds for 'open': flush the storage.
RECURSIVE SendAll(_, _, _)
SendAll(m, h, items) ==
    IF items = <<>> \/ m.threw THEN m
    ELSE SendAll(_send(m, h, Head(items)), h, Tail(items))

flushStorage(m, h) ==
    IF m.chan[h].storage = <<>> THEN m
    ELSE LET items == m.chan[h].storage
         IN  [SendAll([m EXCEPT !.chan[h].storage = <<>>], h, items)
                EXCEPT !.threw = m.threw]

\* What an `onopen` handler sends when it sends something.
HandlerData == Binary(<<0>>)

\* dispatchEvent(open): the `onopen` handler first, the listeners after it.
\* A handler that throws leaves the listeners out.
dispatchOpen(m, h) ==
    LET handled == IF m.chan[h].onopen = None THEN m
                   ELSE send(m, h, HandlerData)
    IN  IF handled.threw THEN handled ELSE flushStorage(handled, h)

\* dispatchEvent(close) on a child: the listener its parent added in
\* _createChannel deletes the parent's entry for the child's id.
dispatchClose(m, h) ==
    LET c == m.chan[h]
    IN  IF c.ws = 0 THEN m
        ELSE [m EXCEPT !.chan[c.ws].channels = MapDelete(@, c.id)]

RECURSIVE close(_, _)
close(m, h) ==
    LET c == m.chan[h]
    IN  IF c.readyState \in {CLOSED, CLOSING} THEN m
        ELSE IF c.id # 0
        THEN LET closing == SetReadyState(m, h, CLOSING)
                 frame == createBuffer(CloseChannel, c.id,
                                       buildClosePayload(DefaultCloseCode))
                 sent == sendData(closing, c.ws, frame)
                 done == IF sent.threw THEN sent ELSE dispatchClose(sent, h)
             IN  SetReadyState(done, h, CLOSED)
        ELSE IF c.ws = 0 THEN wsClose(m) ELSE close(m, c.ws)

_createChannel(m, h, id, sendOpenEvent) ==
    LET parent == m.chan[h]
        channel == Len(m.chan) + 1
        state == IF sendOpenEvent THEN CONNECTING ELSE parent.readyState
        made == [m EXCEPT
                   !.chan = Append([@ EXCEPT ![h].channels =
                                                MapSet(@, id, channel)],
                                   NewMuxChannel(h, id, state))]
    IN  IF sendOpenEvent /\ parent.readyState = OPEN
        THEN [made EXCEPT !.tasks = Append(@, channel)]
        ELSE made

\* The loop of getNextId(), from the value of nextId before `++`.
RECURSIVE NextIdLoop(_, _, _)
NextIdLoop(map, nextId, hitTop) ==
    LET n == nextId + 1
    IN  IF MapHas(map, n)
        THEN IF n >= TopId
             THEN IF hitTop THEN [nextId |-> n, threw |-> TRUE]
                  ELSE NextIdLoop(map, 0, TRUE)
             ELSE NextIdLoop(map, n, hitTop)
        ELSE [nextId |-> n, threw |-> FALSE]

getNextId(m, h) ==
    LET r == NextIdLoop(m.chan[h].channels, m.chan[h].nextId, FALSE)
    IN  [m EXCEPT !.chan[h].nextId = r.nextId, !.threw = r.threw]

createChannel(m, h, initData) ==
    IF m.chan[h].readyState \in {CLOSING, CLOSED} THEN Throw(m)
    ELSE LET next == getNextId(m, h)
             id == next.chan[h].nextId
         IN  IF next.threw THEN next
             ELSE sendData(_createChannel(next, h, id, TRUE), h,
                           createBuffer(CreateChannel, id, initData))

\* The 'message' listener of channel h.
RECURSIVE onMessage(_, _, _)
onMessage(m, h, data) ==
    IF Len(data) < 2 THEN Throw(m)
    ELSE
    LET msg == parse(data)
        c == m.chan[h]
        known == MapHas(c.channels, msg.channelId)
        entry == MapGet(c.channels, msg.channelId)
    IN  CASE msg.type = CreateChannel ->
               _createChannel(
                   [m EXCEPT !.chan[h].nextId =
                                IF @ < msg.channelId THEN msg.channelId
                                ELSE @],
                   h, msg.channelId, FALSE)
          [] msg.type \in {RawStringData, RawBinaryData} -> m
          [] msg.type = Data ->
               IF known THEN onMessage(m, entry, msg.payload) ELSE m
          [] msg.type = CloseChannel ->
               IF ~known THEN m
               ELSE LET closing == SetReadyState(m, entry, CLOSING)
                        done == SetReadyState(dispatchClose(closing, entry),
                                              entry, CLOSED)
                    IN  [done EXCEPT !.chan[h].channels =
                                        MapDelete(@, msg.channelId)]
          [] OTHER -> m

\* The listeners the root adds to its WebSocket for 'open' and for 'close'
\* and 'error'.
onSocketOpen(m, h) ==
    dispatchOpen(SetReadyState(m, h, m.socket.readyState), h)

onSocketClose(m, h) ==
    [SetReadyState(m, h, m.socket.readyState)
       EXCEPT !.chan[h].channels = {}]

\* The callback _createChannel queues.
openChannel(m, h) == dispatchOpen(SetReadyState(m, h, OPEN), h)

\* ------------------------------------------------------ MuxChannel steps
serverVars == <<now, horizon, proxy, upstream, ws, disk, pending, last, ghost,
                mapping, syncState, peerVars, listVars, restVars>>

InitData == <<>>

\* The frames the peer sends: for a child of the root, and nested in a Data
\* frame for a child of such a child.
PeerIds == {1, 2}

PeerFrames ==
    LET inner == { createBuffer(type, id, <<>>) :
                     type \in {CreateChannel, CloseChannel, RawBinaryData},
                     id \in PeerIds }
    IN  inner \cup { createBuffer(Data, id, f) : id \in PeerIds, f \in inner }

\* The next message a caller sends: strings and bytes in turn.
NextData ==
    LET n == Len(muxGhost.sent) + 1
    IN  { IF n % 2 = 1 THEN Text(<<n>>) ELSE Binary(<<n>>) }

\* The objects as an operation leaves them.
Return(m) ==
    /\ chan' = m.chan
    /\ socket' = m.socket
    /\ microtasks' = m.tasks

\* History: the messages send() accepted, oldest first.
Sent(log, h, data) == Append(log, [channel |-> h, data |-> data])

\* History of an 'open' event on h: what its `onopen` handler sent.
SentByHandler(m, h) ==
    IF chan[h].onopen # None /\ ~send(m, h, HandlerData).threw
    THEN Sent(muxGhost.sent, h, HandlerData)
    ELSE muxGhost.sent

\* MuxChannel.wrap(ws)
wrap ==
    /\ chan = <<>>
    /\ chan' = <<NewMuxChannel(0, 0, socket.readyState)>>
    /\ UNCHANGED <<socket, microtasks, muxGhost, serverVars>>

\* The WebSocket opens.  Events wait for the microtasks to have run.
SocketOpen ==
    /\ socket.readyState = CONNECTING
    /\ microtasks = <<>>
    /\ LET opened == [World EXCEPT !.socket.readyState = OPEN]
       IN  IF chan = <<>>
           THEN /\ socket' = opened.socket
                /\ UNCHANGED <<chan, microtasks, muxGhost>>
           ELSE /\ Return(onSocketOpen(opened, 1))
                /\ muxGhost' = [muxGhost EXCEPT
                                  !.sent = SentByHandler(
                                      SetReadyState(opened, 1, OPEN), 1)]
    /\ UNCHANGED serverVars

\* The WebSocket closes, after an error or without one.
SocketClose ==
    /\ socket.readyState # CLOSED
    /\ microtasks = <<>>
    /\ LET closed == [World EXCEPT !.socket.readyState = CLOSED]
       IN  IF chan = <<>>
           THEN /\ socket' = closed.socket
                /\ UNCHANGED <<chan, microtasks>>
           ELSE Return(onSocketClose(closed, 1))
    /\ UNCHANGED <<muxGhost, serverVars>>

\* A frame of the peer arrives at the WebSocket.
PeerFrame(data) ==
    /\ chan # <<>>
    /\ socket.readyState \in {OPEN, CLOSING}
    /\ microtasks = <<>>
    /\ LET m == onMessage(World, 1, data)
       IN  /\ Len(m.chan) <= MaxChannels
           /\ Return(m)
    /\ UNCHANGED <<muxGhost, serverVars>>

\* The oldest queued microtask runs.
RunMicrotask ==
    /\ microtasks # <<>>
    /\ LET h == Head(microtasks)
           m == [World EXCEPT !.tasks = Tail(@)]
       IN  /\ Return(openChannel(m, h))
           /\ muxGhost' = [muxGhost EXCEPT
                             !.sent = SentByHandler(
                                 SetReadyState(m, h, OPEN), h)]
    /\ UNCHANGED serverVars

createChannelCall(h) ==
    /\ Len(chan) < MaxChannels
    /\ LET m == createChannel(World, h, InitData)
       IN  /\ Return(m)
           /\ muxGhost' = [muxGhost EXCEPT
                             !.local = IF Len(m.chan) > Len(chan)
                                       THEN @ \cup {Len(m.chan)} ELSE @]
    /\ UNCHANGED serverVars

sendCall(h, data) ==
    /\ Len(muxGhost.sent) < MaxSends
    /\ LET m == send(World, h, data)
       IN  /\ Return(m)
           /\ muxGhost' = [muxGhost EXCEPT
                             !.sent = IF m.threw THEN @
                                      ELSE Sent(@, h, data)]
    /\ UNCHANGED serverVars

closeCall(h) ==
    /\ Return(close(World, h))
    /\ UNCHANGED <<muxGhost, serverVars>>

\* channel.onopenHandler = function () { this.send(...) }, on a channel
\* that has still to open.
setOnopenHandler(h) ==
    /\ chan[h].onopen = None
    /\ chan[h].readyState = CONNECTING
    /\ chan' = [chan EXCEPT ![h].onopen = Some("send")]
    /\ UNCHANGED <<socket, microtasks, muxGhost, serverVars>>

NextMux ==
    \/ wrap
    \/ SocketOpen
    \/ SocketClose
    \/ \E data \in PeerFrames : PeerFrame(data)
    \/ RunMicrotask
    \/ \E h \in DOMAIN chan : createChannelCall(h)
    \/ \E h \in DOMAIN chan : \E data \in NextData : sendCall(h, data)
    \/ \E h \in DOMAIN chan : closeCall(h)
    \/ \E h \in DOMAIN chan : setOnopenHandler(h)

SpecMux == Init({<<Some("A"), None, None>>}, 1) /\ [][NextMux]_vars

\* ---------------------------------------------- multiplexer: properties
Channels == DOMAIN chan

\* C14: a channel's ready state only moves forward along CONNECTING, OPEN,
\* CLOSING, CLOSED, so a channel that is CLOSING or CLOSED is never OPEN
\* afterwards.
C14_ReadyStateForward ==
    [][\A h \in Channels : chan'[h].readyState >= chan[h].readyState]_vars

\* A channel that has not been closed.
Live(h) == chan[h].readyState \in {CONNECTING, OPEN}

\* C15: within one parent no two live child channels share an id, whether
\* the id was allocated by createChannel or announced by the peer in a
\* CreateChannel frame.
C15_LiveIdsUnique ==
    \A a, b \in Channels :
        (a # b /\ chan[a].ws # 0 /\ chan[a].ws = chan[b].ws
               /\ chan[a].id = chan[b].id)
            => ~(Live(a) /\ Live(b))

\* The channels above h, nearest first.
RECURSIVE Ancestors(_)
Ancestors(h) ==
    IF chan[h].ws = 0 THEN {} ELSE {chan[h].ws} \cup Ancestors(chan[h].ws)

\* C16: closing a channel closes its descendants, so no channel is OPEN
\* while one of its ancestors is CLOSED.
C16_DescendantsClosed ==
    \A h \in Channels :
        chan[h].readyState = OPEN
            => \A a \in Ancestors(h) : chan[a].readyState # CLOSED

\* C17: send() on a channel that is CLOSING or CLOSED throws and writes
\* nothing to the WebSocket (and queues nothing), for the root and for
\* nested channels.
C17_SendOnClosedFails ==
    \A h \in Channels :
        chan[h].readyState \in {CLOSING, CLOSED}
            => \A data \in NextData :
                   LET m == send(World, h, data)
                   IN  m.threw /\ m.socket = socket /\ m.chan = chan

\* What send() on channel h gives to WebSocket#send for `data`: what it
\* writes when the root and the WebSocket are OPEN and nothing is queued.
Written(h, data) ==
    LET open == [World EXCEPT !.socket = [readyState |-> OPEN, sent |-> <<>>],
                              !.chan[1].readyState = OPEN]
    IN  send(open, h, data).socket.sent[1]

\* The accepted messages as they go to the WebSocket, oldest first.
Accepted ==
    [i \in 1..Len(muxGhost.sent) |->
        Written(muxGhost.sent[i].channel, muxGhost.sent[i].data)]

Range(seq) == { seq[i] : i \in 1..Len(seq) }

\* The messages the WebSocket was given followed by those the root has
\* queued for it, without the frames that create and close channels.
Outgoing ==
    LET all == socket.sent \o (IF chan = <<>> THEN <<>> ELSE chan[1].storage)
        IsMessage(item) == item \in Range(Accepted)
    IN  SelectSeq(all, IsMessage)

RECURSIVE IsSubsequence(_, _)
IsSubsequence(part, whole) ==
    IF part = <<>> THEN TRUE
    ELSE IF whole = <<>> THEN FALSE
    ELSE IF Head(part) = Head(whole)
         THEN IsSubsequence(Tail(part), Tail(whole))
         ELSE IsSubsequence(part, Tail(whole))

\* C18: messages are written to the WebSocket in the order they were sent,
\* and the messages queued while the root was CONNECTING are written in that
\* order, before any message sent after them.
C18_WrittenInSendOrder == IsSubsequence(Outgoing, Accepted)

\* C19: a child created by createChannel enters OPEN once its parent is
\* OPEN.  The only step that opens such a child is the microtask that
\* _createChannel queues, so a CONNECTING child of an OPEN parent has that
\* microtask pending.
C19_OpenScheduled ==
    \A h \in muxGhost.local :
        (chan[h].readyState = CONNECTING /\ chan[chan[h].ws].readyState = OPEN)
            => h \in Range(microtasks)

\* ====================================================== DeviceListSocket
\* A device id is its sequence of characters.
MaxTriggers == 2
MaxTrackers == 3
MaxExpiries == 1

CACHE_TTL == 5000

UsbId == <<"u">>
WifiId == <<"w", ":", "5">>

\* What a listing of the attached devices returns; the empty listing is
\* also what a failed listing is turned into.
AdbListings == { <<>>, <<UsbId, WifiId>> }

\* What the lookups on a device return: getDeviceIp() for a USB device and
\* getSerial() for a Wi-Fi one, each None when it finds nothing.
DeviceInfos ==
    { [ip |-> None, serial |-> None],
      [ip |-> Some(<<"i">>), serial |-> Some(UsbId)] }

includes(id, c) == \E i \in 1..Len(id) : id[i] = c

RECURSIVE parseIp(_)
parseIp(id) ==
    IF id = <<>> \/ Head(id) = ":" THEN <<>>
    ELSE <<Head(id)>> \o parseIp(Tail(id))

\* RecordingStatusService.getAll()
getAll ==
    IF proxy.sessionId # None /\ proxy.status # None
    THEN { [device |-> <<proxy.sessionId[1]>>, status |-> proxy.status[1]] }
    ELSE {}

\* statusByDevice.get(key), None for undefined
statusByDevice(key) ==
    IF \E e \in getAll : e.device = key
    THEN Some((CHOOSE e \in getAll : e.device = key).status)
    ELSE None

\* a ?? b
Coalesce(a, b) == IF a # None THEN a ELSE b

\* a || '' for an optional string a
OrEmpty(a) == IF a = None THEN <<>> ELSE a[1]

\* The record quickSendCachedOrIds() makes of an id.
QuickPayload(id) ==
    LET isWifi == includes(id, ":")
    IN  [device |-> id,
         status_recodd |-> Coalesce(statusByDevice(id), Some("stop"))[1],
         ipv4 |-> IF isWifi THEN parseIp(id) ELSE <<>>,
         uuid |-> IF isWifi THEN <<>> ELSE id,
         connect_type |-> IF isWifi THEN "wifi" ELSE "usb"]

\* The record collectDevices() makes of an id.
FullPayload(id, info) ==
    LET isWifi == includes(id, ":")
        uuid == IF isWifi THEN OrEmpty(info.serial) ELSE id
    IN  [device |-> id,
         status_recodd |-> Coalesce(statusByDevice(id),
                               Coalesce(statusByDevice(uuid),
                                        Some("stop")))[1],
         ipv4 |-> IF isWifi THEN parseIp(id) ELSE OrEmpty(info.ip),
         uuid |-> uuid,
         connect_type |-> IF isWifi THEN "wifi" ELSE "usb"]

MapSeq(items, F(_)) == [i \in 1..Len(items) |-> F(items[i])]

GroupKey(item) == IF item.uuid # <<>> THEN item.uuid ELSE item.device

\* ConnectPreferenceService.getPreference(key), None for undefined
getNoPreference(preferences, key) == None

getPreference(preferences, key) ==
    IF \E e \in preferences : e[1] = key
    THEN Some((CHOOSE e \in preferences : e[1] = key)[2])
    ELSE None

\* The second half of collectDevices(): group the records by uuid (or
\* device), then one record of each group, the groups in first-seen order.
Filtered(raw, preferences) ==
    LET keys == Unique(MapSeq(raw, GroupKey))
        Group(key) == SelectSeq(raw, LAMBDA item : GroupKey(item) = key)
        Chosen(key) ==
            LET group == Group(key)
                pref == getPreference(preferences, key)
                preferred == IF pref = None THEN <<>>
                             ELSE SelectSeq(group, LAMBDA i :
                                                i.connect_type = pref[1])
            IN  IF preferred # <<>> THEN preferred[1] ELSE group[1]
    IN  MapSeq(keys, Chosen)

\* Snapshots: what quickSendCachedOrIds() and refreshAndBroadcast() send.
QuickSnapshot(ids) == [full |-> FALSE, devices |-> MapSeq(ids, QuickPayload)]
FullSnapshot(devices) == [full |-> TRUE, devices |-> devices]

\* The objects an operation of DeviceListSocket works on.
ListWorld == [dls |-> dls, calls |-> calls, inbox |-> inbox]

\* this.sockets.forEach(socket => socket.ws.send(JSON.stringify(snapshot)))
Broadcast(w, snapshot) ==
    [w EXCEPT !.inbox = [s \in Subscribers |->
                            IF s \in w.dls.sockets THEN Append(@[s], snapshot)
                            ELSE @[s]]]

Fresh(cache, t) == cache # None /\ t - cache[1].ts < CACHE_TTL

\* The orders in which runWithLimit() can push its results: its workers run
\* side by side.
Orders(ids) ==
    LET n == 1..Len(ids)
        Injective(p) == \A i, j \in n : p[i] = p[j] => i = j
    IN  { [i \in n |-> ids[p[i]]] : p \in { q \in [n -> n] : Injective(q) } }

\* Two fields of dls are history, not state of the program: `events`
\* counts the change events of the trackers, and `answered` is the highest
\* count of events that, among the listings whose ids went into a full
\* snapshot sent to subscribers, a listing was taken after.  Ids carry the
\* count of events their listing was taken after (`epoch`): in the call
\* that collects them, and in the cache.
Answered(w, epoch) ==
    IF w.dls.sockets # {} /\ epoch > w.dls.answered
    THEN [w EXCEPT !.dls.answered = epoch]
    ELSE w

RECURSIVE refreshAndBroadcast(_, _, _)
RECURSIVE Broadcasted(_, _, _, _)

\* refreshAndBroadcast() from `const devices = await this.collectDevices()`
\* on, through its `finally`.
Broadcasted(w, devices, epoch, t) ==
    LET sent == Broadcast(Answered(w, epoch), FullSnapshot(devices))
        idle == [sent EXCEPT !.dls.refreshing = FALSE, !.calls.refresh = None]
    IN  IF idle.dls.pending
        THEN refreshAndBroadcast([idle EXCEPT !.dls.pending = FALSE], FALSE, t)
        ELSE idle

\* collectDevices() once listDeviceIds() has returned: the lookups on the
\* devices are awaited, unless there is no device.
Listed(w, ids, epoch, t) ==
    IF ids = <<>> THEN Broadcasted(w, <<>>, epoch, t)
    ELSE [w EXCEPT !.calls.refresh = Some([stage |-> "lookups", ids |-> ids,
                                           ts |-> t, epoch |-> epoch])]

refreshAndBroadcast(w, force, t) ==
    LET forced == IF force THEN [w EXCEPT !.dls.deviceIdsCache = None] ELSE w
    IN  IF forced.dls.refreshing
        THEN [forced EXCEPT !.dls.pending = TRUE]
        ELSE LET busy == [forced EXCEPT !.dls.refreshing = TRUE]
                 cached == busy.dls.deviceIdsCache
             IN  IF Fresh(cached, t)
                 THEN Listed(busy, cached[1].value, cached[1].epoch, t)
                 ELSE [busy EXCEPT
                         !.calls.refresh = Some([stage |-> "adbkit",
                                                 ids |-> <<>>, ts |-> t,
                                                 epoch |-> busy.dls.events])]

\* quickSendCachedOrIds() up to its `await`, and all of it when the ids are
\* cached.
quickSendCachedOrIds(w, t) ==
    LET cached == w.dls.deviceIdsCache
    IN  IF Fresh(cached, t)
        THEN Broadcast(w, QuickSnapshot(cached[1].value))
        ELSE [w EXCEPT !.calls.quick = @ + 1]

\* ensureTracker() up to `await client.trackDevices()`.  `trackers` holds
\* the trackers asked for so far, each "starting", "live", "errored" (after
\* 'error', before 'end'), "ended", or "failed" (it never started).
ensureTracker(w) ==
    IF w.dls.trackerInit THEN w
    ELSE [w EXCEPT !.dls.trackerInit = TRUE,
                   !.dls.trackers = Append(@, "starting")]

scheduleTrackerRestart(w) ==
    IF w.dls.trackerRestartTimer THEN w
    ELSE [w EXCEPT !.dls.trackerInit = FALSE,
                   !.dls.trackerRestartTimer = TRUE]

\* ------------------------------------------------ DeviceListSocket steps
notListVars == <<horizon, proxy, upstream, ws, disk, pending, last, ghost,
                 mapping, syncState, peerVars, muxVars, restVars>>

ListReturn(w) ==
    /\ dls' = w.dls
    /\ calls' = w.calls
    /\ inbox' = w.inbox

Triggered(w) == [w EXCEPT !.dls.triggers = @ + 1]

\* new DeviceListSocket(ws)
Subscribe(s) ==
    /\ s \notin dls.sockets
    /\ inbox[s] = <<>>
    /\ dls.triggers < MaxTriggers
    /\ LET added == [Triggered(ListWorld) EXCEPT !.dls.sockets = @ \cup {s}]
           tracked == ensureTracker(added)
           quick == quickSendCachedOrIds(tracked, now)
       IN  /\ Len(tracked.dls.trackers) <= MaxTrackers
           /\ ListReturn(refreshAndBroadcast(quick, TRUE, now))
    /\ UNCHANGED <<now, notListVars>>

\* onSocketMessage
SubscriberMessage(s) ==
    /\ s \in dls.sockets
    /\ dls.triggers < MaxTriggers
    /\ LET quick == quickSendCachedOrIds(Triggered(ListWorld), now)
       IN  ListReturn(refreshAndBroadcast(quick, TRUE, now))
    /\ UNCHANGED <<now, notListVars>>

\* release()
Unsubscribe(s) ==
    /\ s \in dls.sockets
    /\ dls' = [dls EXCEPT !.sockets = @ \ {s}]
    /\ UNCHANGED <<now, calls, inbox, notListVars>>

\* `await client.trackDevices()` resolves in ensureTracker().
TrackerStarted(t) ==
    /\ dls.trackers[t] = "starting"
    /\ dls' = [dls EXCEPT !.tracker = t, !.trackers[t] = "live"]
    /\ UNCHANGED <<now, calls, inbox, notListVars>>

\* `await client.trackDevices()` rejects in ensureTracker().
TrackerStartFailed(t) ==
    /\ dls.trackers[t] = "starting"
    /\ ListReturn(scheduleTrackerRestart(
           [ListWorld EXCEPT !.dls.trackers[t] = "failed"]))
    /\ UNCHANGED <<now, notListVars>>

\* A tracker emits 'error'.
TrackerError(t) ==
    /\ dls.trackers[t] = "live"
    /\ ListReturn(scheduleTrackerRestart(
           [ListWorld EXCEPT !.dls.trackers[t] = "errored",
                             !.dls.deviceIdsCache = None]))
    /\ UNCHANGED <<now, notListVars>>

\* A tracker emits 'end'.
TrackerEnd(t) ==
    /\ dls.trackers[t] \in {"live", "errored"}
    /\ ListReturn(scheduleTrackerRestart(
           [ListWorld EXCEPT !.dls.trackers[t] = "ended"]))
    /\ UNCHANGED <<now, notListVars>>

\* The timer of scheduleTrackerRestart() fires.
RestartTimerFires ==
    /\ dls.trackerRestartTimer
    /\ LET w == ensureTracker(
                    [ListWorld EXCEPT !.dls.trackerRestartTimer = FALSE])
       IN  /\ Len(w.dls.trackers) <= MaxTrackers
           /\ ListReturn(w)
    /\ UNCHANGED <<now, notListVars>>

\* A tracker emits 'changeSet' or 'change'.
TrackerChange(t) ==
    /\ dls.trackers[t] = "live"
    /\ dls.triggers < MaxTriggers
    /\ ListReturn(refreshAndBroadcast(
           [Triggered(ListWorld) EXCEPT !.dls.deviceIdsCache = None,
                                        !.dls.events = @ + 1],
           TRUE, now))
    /\ UNCHANGED <<now, notListVars>>

\* The listing that quickSendCachedOrIds() awaits returns.
QuickListed(ids) ==
    /\ calls.quick > 0
    /\ ListReturn(Broadcast([ListWorld EXCEPT !.calls.quick = @ - 1],
                            QuickSnapshot(ids)))
    /\ UNCHANGED <<now, notListVars>>

\* listDeviceIds(), after its listing(s), sets the cache and returns.
ListedIds(w, ids, ts, epoch) ==
    Listed([w EXCEPT !.dls.deviceIdsCache =
                         Some([value |-> ids, ts |-> ts, epoch |-> epoch])],
           ids, epoch, now)

\* The adbkit listing that listDeviceIds() awaits returns; an empty one is
\* followed by the listing with `adb devices`.  The adb server took the
\* listing at some moment between the request and the answer: after any of
\* the change events counted since the request, or before them.
RefreshListed(ids) ==
    /\ calls.refresh # None
    /\ calls.refresh[1].stage = "adbkit"
    /\ IF ids = <<>>
       THEN /\ calls' = [calls EXCEPT !.refresh[1].stage = "adb",
                                      !.refresh[1].epoch = dls.events]
            /\ UNCHANGED <<dls, inbox>>
       ELSE \E epoch \in calls.refresh[1].epoch..dls.events :
               ListReturn(ListedIds(ListWorld, ids, calls.refresh[1].ts,
                                    epoch))
    /\ UNCHANGED <<now, notListVars>>

\* The `adb devices` listing returns.
RefreshAdbListed(ids) ==
    /\ calls.refresh # None
    /\ calls.refresh[1].stage = "adb"
    /\ \E epoch \in calls.refresh[1].epoch..dls.events :
          ListReturn(ListedIds(ListWorld, ids, calls.refresh[1].ts, epoch))
    /\ UNCHANGED <<now, notListVars>>

\* The lookups of collectDevices() have all returned.
RefreshLookedUp(info, order) ==
    /\ calls.refresh # None
    /\ calls.refresh[1].stage = "lookups"
    /\ order \in Orders(calls.refresh[1].ids)
    /\ LET raw == MapSeq(order, LAMBDA id : FullPayload(id, info))
       IN  ListReturn(Broadcasted(ListWorld,
                                  Filtered(raw, connect.preferences),
                                  calls.refresh[1].epoch, now))
    /\ UNCHANGED <<now, notListVars>>

\* Time passes: what was cached is no longer fresh.
Elapse ==
    /\ now + CACHE_TTL <= horizon
    /\ now' = now + CACHE_TTL
    /\ UNCHANGED <<listVars, notListVars>>

Trackers == DOMAIN dls.trackers

NextList ==
    \/ \E s \in Subscribers : Subscribe(s)
    \/ \E s \in Subscribers : SubscriberMessage(s)
    \/ \E s \in Subscribers : Unsubscribe(s)
    \/ \E t \in Trackers : TrackerStarted(t)
    \/ \E t \in Trackers : TrackerChange(t)
    \/ \E ids \in AdbListings : QuickListed(ids)
    \/ \E ids \in AdbListings : RefreshListed(ids)
    \/ \E ids \in AdbListings : RefreshAdbListed(ids)
    \/ \E info \in DeviceInfos :
         \E order \in UNION { Orders(ids) : ids \in AdbListings } :
            RefreshLookedUp(info, order)
    \/ Elapse

SpecList ==
    Init({<<Some("A"), None, None>>}, 1 + MaxExpiries * CACHE_TTL)
        /\ [][NextList]_vars

\* The tracker of the device list on its own: subscribers come and go, and
\* trackers start, fail, break and end.
NextTracker ==
    \/ \E s \in Subscribers : Subscribe(s)
    \/ \E s \in Subscribers : Unsubscribe(s)
    \/ \E t \in Trackers : TrackerStarted(t)
    \/ \E t \in Trackers : TrackerStartFailed(t)
    \/ \E t \in Trackers : TrackerChange(t)
    \/ \E t \in Trackers : TrackerError(t)
    \/ \E t \in Trackers : TrackerEnd(t)
    \/ RestartTimerFires

SpecTracker == Init({<<Some("A"), None, None>>}, 1) /\ [][NextTracker]_vars

\* ---------------------------------------------- device list: properties
ListIdle == calls.quick = 0 /\ calls.refresh = None /\ ~dls.refreshing

\* The snapshots a subscriber was sent by refreshAndBroadcast().
FullOnes(s) == SelectSeq(inbox[s], LAMBDA snapshot : snapshot.full)

\* C20: a subscriber is sent the id-only snapshot before the full snapshot
\* that its subscription triggers, so once every call has returned, what a
\* subscriber was sent last is a full snapshot (or says what the last full
\* snapshot said).
C20_FullSnapshotLast ==
    ListIdle =>
        \A s \in dls.sockets :
            inbox[s] # <<>> =>
                LET final == inbox[s][Len(inbox[s])]
                    full == FullOnes(s)
                IN  \/ final.full
                    \/ /\ full # <<>>
                       /\ final.devices = full[Len(full)].devices

\* A tracker that has not started or emits nothing any more.
Gone(t) == dls.trackers[t] \in {"failed", "ended"}

\* C21: a tracker that errors, ends or fails to start is followed by a new
\* tracker start.  Only the restart timer starts one when no subscriber
\* does, so when every tracker asked for is gone the timer is pending and
\* ensureTracker() is free to start a tracker (trackerInit is unset).
C21_RestartPending ==
    (dls.trackers # <<>> /\ \A t \in Trackers : Gone(t))
        => (dls.trackerRestartTimer /\ ~dls.trackerInit)

\* ---------------------------------------------------------- ControlCenter
\* cc.tracker names a tracker by its position in cc.trackers (0: undefined);
\* a tracker is [state, handlers], handlers telling whether 'changeSet',
\* 'end' and 'error' are bound to the ControlCenter.  cc.restartTimeoutId
\* tells whether the field holds a timer handle, cc.timer whether that timer
\* has yet to fire.  cc.inits holds the stage of every init() call:
\* "track" (awaiting trackDevices), "list" (awaiting listDevices),
\* "resolved" or "rejected".  cc.deviceMap is a set of <<udid, state>>.

\* How many trackers the adb client is asked for.
MaxCcTrackers == 3

\* How many changeSet events one tracker emits.
MaxChangeSets == 1

DISCONNECTED == "disconnected"

\* The states adb reports for the one device of the model.
DeviceStates == {"device", "offline"}

\* handleConnected(udid, state)
handleConnected(c, udid, state) ==
    [c EXCEPT !.deviceMap = MapSet(@, udid, state)]

\* private restartTracker = (): void => { ... }
restartTracker(c) ==
    IF c.restartTimeoutId THEN c
    ELSE [c EXCEPT !.restartTimeoutId = TRUE, !.timer = TRUE]

\* stopTracker(): tracker.end() ends the tracker after its handlers are off.
stopTracker(c) ==
    LET off == IF c.tracker # 0
               THEN [c EXCEPT !.trackers[c.tracker] =
                                  [@ EXCEPT !.state = "ended",
                                            !.handlers = FALSE]]
               ELSE c
    IN  [off EXCEPT !.tracker = 0, !.initialized = FALSE]

\* init() up to its first await that leaves the event loop: startTracker()
\* returns this.tracker when there is one, else awaits client.trackDevices().
init(c) ==
    IF c.initialized THEN [c EXCEPT !.inits = Append(@, "resolved")]
    ELSE IF c.tracker # 0 THEN [c EXCEPT !.inits = Append(@, "list")]
    ELSE [c EXCEPT !.inits = Append(@, "track")]

\* ------------------------------------------------------ ControlCenter steps
\* start(): the service is started once, when the server boots.
CcStart ==
    /\ ~cc.started
    /\ cc' = init([cc EXCEPT !.started = TRUE])
    /\ UNCHANGED notCcVars

\* client.trackDevices() resolves: startTracker() binds the handlers and
\* init() stores the tracker and asks for the device list.
TrackDevicesResolved(i) ==
    /\ cc.inits[i] = "track"
    /\ Len(cc.trackers) < MaxCcTrackers
    /\ cc' = [cc EXCEPT !.trackers = Append(@, [state |-> "live",
                                                handlers |-> TRUE,
                                                changes |-> 0]),
                        !.tracker = Len(cc.trackers) + 1,
                        !.inits[i] = "list"]
    /\ UNCHANGED notCcVars

\* client.trackDevices() rejects: init() rejects.
TrackDevicesRejected(i) ==
    /\ cc.inits[i] = "track"
    /\ cc' = [cc EXCEPT !.inits[i] = "rejected"]
    /\ UNCHANGED notCcVars

\* client.listDevices() resolves with the devices adb knows.
ListDevicesResolved(i, devices) ==
    /\ cc.inits[i] = "list"
    /\ LET RECURSIVE Each(_, _)
           Each(c, todo) ==
               IF todo = <<>> THEN c
               ELSE Each(handleConnected(c, Head(todo)[1], Head(todo)[2]),
                         Tail(todo))
       IN  cc' = [Each(cc, devices) EXCEPT !.initialized = TRUE,
                                           !.inits[i] = "resolved"]
    /\ UNCHANGED notCcVars

\* client.listDevices() rejects: init() rejects.
ListDevicesRejected(i) ==
    /\ cc.inits[i] = "list"
    /\ cc' = [cc EXCEPT !.inits[i] = "rejected"]
    /\ UNCHANGED notCcVars

\* The tracker emits 'changeSet': onChangeSet(changes), with one device
\* added or changed (state given) or removed.
CcChangeSet(t, state) ==
    /\ cc.trackers[t].state = "live"
    /\ cc.trackers[t].changes < MaxChangeSets
    /\ LET counted == [cc EXCEPT !.trackers[t].changes = @ + 1]
       IN  cc' = IF cc.trackers[t].handlers
                 THEN handleConnected(
                          [counted EXCEPT
                               !.waitAfterError = defaultWaitAfterError],
                          UsbId, state)
                 ELSE counted
    /\ UNCHANGED notCcVars

\* The tracker emits 'error'.
CcTrackerError(t) ==
    /\ cc.trackers[t].state = "live"
    /\ LET errored == [cc EXCEPT !.trackers[t].state = "errored"]
       IN  cc' = IF cc.trackers[t].handlers THEN restartTracker(errored)
                 ELSE errored
    /\ UNCHANGED notCcVars

\* The tracker emits 'end', on its own or after an error.
CcTrackerEnd(t) ==
    /\ cc.trackers[t].state \in {"live", "errored"}
    /\ LET ended == [cc EXCEPT !.trackers[t].state = "ended"]
       IN  cc' = IF cc.trackers[t].handlers THEN restartTracker(ended)
                 ELSE ended
    /\ UNCHANGED notCcVars

\* The timer of restartTracker fires:
\* this.stopTracker(); this.waitAfterError *= 1.2; this.init();
CcRestartTimerFires ==
    /\ cc.timer
    /\ cc' = init([stopTracker([cc EXCEPT !.timer = FALSE])
                      EXCEPT !.waitAfterError = (@ * 6) \div 5])
    /\ UNCHANGED notCcVars

CcTrackers == DOMAIN cc.trackers

CcInits == DOMAIN cc.inits

NextControlCenter ==
    \/ CcStart
    \/ \E i \in CcInits : TrackDevicesResolved(i)
    \/ \E i \in CcInits : TrackDevicesRejected(i)
    \/ \E i \in CcInits, devices \in {<<>>, <<<<UsbId, "device">>>>} :
           ListDevicesResolved(i, devices)
    \/ \E i \in CcInits : ListDevicesRejected(i)
    \/ \E t \in CcTrackers, state \in DeviceStates \cup {DISCONNECTED} :
           CcChangeSet(t, state)
    \/ \E t \in CcTrackers : CcTrackerError(t)
    \/ \E t \in CcTrackers : CcTrackerEnd(t)
    \/ CcRestartTimerFires

SpecControlCenter ==
    Init({<<Some("A"), None, None>>}, 1) /\ [][NextControlCenter]_vars

\* A tracker whose 'end' and 'error' reach restartTracker.
Watched(t) == cc.trackers[t].state = "live" /\ cc.trackers[t].handlers

\* C22: after every tracker end or error, and after a restart attempt that
\* failed, ControlCenter starts a tracker again.  A tracker is started by
\* init() only, and init() is called by the restart timer only once the
\* service is started: unless a tracker is live or an init() is on its way
\* to one, the restart timer is pending.
C22_RestartPending ==
    (cc.trackers # <<>> /\ ~\E t \in CcTrackers : Watched(t))
        => \/ cc.timer
           \/ \E i \in CcInits : cc.inits[i] = "track"

\* --------------------------------------------------------- collectDevices
\* collectDevices() on its own: what adb lists, what the lookups on each
\* device return, the order in which the lookups complete and what
\* ConnectPreferenceService holds are the inputs.

\* How many devices adb lists at most.
MaxListing == 3

OtherWifiId == <<"x", ":", "5">>

\* A serial number that is not the id of a listed USB device.
OtherSerial == <<"s">>

CollectIds == {UsbId, WifiId, OtherWifiId}

\* The listings of at most MaxListing devices, every device listed once.
CollectListings ==
    UNION { { ids \in [1..n -> CollectIds] :
                \A i, j \in 1..n : ids[i] = ids[j] => i = j } :
            n \in 0..MaxListing }

CollectInfos == DeviceInfos \cup { [ip |-> None, serial |-> Some(OtherSerial)] }

\* What ConnectPreferenceService can hold: a transport for some of the keys.
CollectKeys == {UsbId, OtherSerial}

CollectPreferences ==
    { { <<k, f[k]>> : k \in { x \in CollectKeys : f[x] # "none" } } :
      f \in [CollectKeys -> {"none", "usb", "wifi"}] }

\* collectDevices() from the listing on; one call is observed.
CollectDevices(ids, infos, order, prefs) ==
    /\ collected = None
    /\ order \in Orders(ids)
    /\ LET raw == MapSeq(order, LAMBDA id : FullPayload(id, infos[id]))
       IN  collected' = Some([raw |-> raw, preferences |-> prefs,
                              filtered |-> Filtered(raw, prefs)])
    /\ UNCHANGED notCollectedVars

NextCollect ==
    \E ids \in CollectListings, infos \in [CollectIds -> CollectInfos],
       prefs \in CollectPreferences :
        \E order \in Orders(ids) : CollectDevices(ids, infos, order, prefs)

SpecCollect == Init({<<Some("A"), None, None>>}, 1) /\ [][NextCollect]_vars

\* The positions in raw of the records of one device: its group.
GroupOf(raw, key) == { i \in DOMAIN raw : GroupKey(raw[i]) = key }

Min(set) == CHOOSE i \in set : \A j \in set : i <= j

\* The record the preferences choose in a group: the first one with the
\* preferred transport if there is a preference and such a record, else the
\* first one.
Preferred(raw, preferences, key) ==
    LET group == GroupOf(raw, key)
        wanted == { i \in group :
                      <<key, raw[i].connect_type>> \in preferences }
    IN  IF wanted # {} THEN raw[Min(wanted)] ELSE raw[Min(group)]

\* C23: a snapshot of collectDevices() holds at most one record per
\* hardware serial (uuid, or the device id when no serial is known), one for
\* every device looked up, and that record is the one with the preferred
\* transport when a preference is stored for the serial and the group has
\* such a record, else the first-seen record of the group.
C23_OneRecordPerSerial ==
    collected # None =>
        LET c == collected[1]
        IN  /\ \A i, j \in DOMAIN c.filtered :
                   GroupKey(c.filtered[i]) = GroupKey(c.filtered[j]) => i = j
            /\ \A i \in DOMAIN c.raw :
                   \E j \in DOMAIN c.filtered :
                       GroupKey(c.filtered[j]) = GroupKey(c.raw[i])
            /\ \A j \in DOMAIN c.filtered :
                   c.filtered[j] =
                       Preferred(c.raw, c.preferences, GroupKey(c.filtered[j]))

\* A snapshot in which a stored preference chose a record that was not the
\* first-seen of its group.
C23_PreferenceChose ==
    /\ collected # None
    /\ \E j \in DOMAIN collected[1].filtered :
           LET c == collected[1]
               key == GroupKey(c.filtered[j])
           IN  /\ Cardinality(GroupOf(c.raw, key)) > 1
               /\ c.filtered[j] # c.raw[Min(GroupOf(c.raw, key))]

\* ---------------------------------------------------------------- pushFile
\* push.pc is the await pushFile() is suspended at: "connecting" (the
\* session), "NEW", "START", "APPEND", "FINISH" (the ACK of that command),
\* "read" (blob.arrayBuffer()), or "idle", "done", "failed".
\* push.listening tells whether the listeners and the timer of
\* waitForPushAck are in place; push.acked counts the ACKs pushFile() was
\* content with.  A chunk is sent as its header: its bytes are left out.

TYPE_PUSH_FILE == 102

\* FilePushState.NEW (NEW is a reserved word)
StateNEW == 0
START == 1
APPEND == 2
FINISH == 3

NEW_PUSH_ID == 1
NO_ERROR == 0

chunkSize == 64 * 1024

\* The sizes of the files pushed: no chunk, one chunk, two chunks.
FileSizes == {0, 1, chunkSize + 1}

\* utf8(remotePath)
RemotePath == <<47, 102>>

\* utf8(udid), and the init data of the two channels
FslsInit == <<70, 83, 76, 83, 1, 0, 0, 0, 117>>
SendInit == <<83, 69, 78, 68>>

int8(n) == <<n % 256>>
int16be(n) == <<(n % 65536) \div 256, n % 256>>
int32be(n) == <<n \div 16777216, (n \div 65536) % 256, (n \div 256) % 256,
                n % 256>>

buildPushCommandNew == <<TYPE_PUSH_FILE>> \o int16be(0) \o int8(StateNEW)

buildPushCommandStart(id, fileSize, remotePath) ==
    <<TYPE_PUSH_FILE>> \o int16be(id) \o int8(START) \o int32be(fileSize)
        \o int16be(Len(remotePath)) \o remotePath

buildPushCommandAppend(id, byteLength) ==
    <<TYPE_PUSH_FILE>> \o int16be(id) \o int8(APPEND) \o int32be(byteLength)

buildPushCommandFinish(id) == <<TYPE_PUSH_FILE>> \o int16be(id) \o int8(FINISH)

\* parsePushResponse(buf), None when it throws
parsePushResponse(u8) ==
    IF Len(u8) < 3 THEN None
    ELSE LET word == u8[1] * 256 + u8[2]
         IN  Some([id |-> IF word >= 32768 THEN word - 65536 ELSE word,
                   status |-> IF u8[3] >= 128 THEN u8[3] - 256 ELSE u8[3]])

\* The objects pushFile() works on.
PushWorld == [m |-> World, p |-> push]

Failed(w) == [w EXCEPT !.p.pc = "failed", !.p.listening = FALSE]

\* ch.send(command); await waitForPushAck(ch)
sendCommand(w, command, pc) ==
    LET m == send(w.m, w.p.ch, Binary(command))
    IN  IF m.threw THEN Failed(w)
        ELSE [m |-> m, p |-> [w.p EXCEPT !.pc = pc, !.listening = TRUE]]

\* The loop over the chunks, from its test to its next await, and FINISH.
Chunks(w) ==
    IF w.p.offset < w.p.size THEN [w EXCEPT !.p.pc = "read"]
    ELSE sendCommand(w, buildPushCommandFinish(w.p.pushId), "FINISH")

ChunkLength(p) ==
    IF p.size < p.offset + chunkSize THEN p.size - p.offset ELSE chunkSize

\* pushFile() from the ACK r of the command it waited for to its next await.
Acked(w, r) ==
    LET ok == [w EXCEPT !.p.acked = @ + 1, !.p.listening = FALSE]
    IN  CASE w.p.pc = "NEW" ->
               IF r.status # NEW_PUSH_ID THEN Failed(w)
               ELSE sendCommand([ok EXCEPT !.p.pushId = r.id],
                                buildPushCommandStart(r.id, w.p.size,
                                                      RemotePath),
                                "START")
          [] w.p.pc = "START" ->
               IF r.status # NO_ERROR THEN Failed(w) ELSE Chunks(ok)
          [] w.p.pc = "APPEND" ->
               IF r.status # NO_ERROR THEN Failed(w)
               ELSE Chunks([ok EXCEPT !.p.offset = @ + ChunkLength(w.p)])
          [] w.p.pc = "FINISH" ->
               IF r.status # NO_ERROR THEN Failed(w)
               ELSE [m |-> [close(ok.m, ok.p.ch) EXCEPT !.threw = FALSE],
                     p |-> [ok.p EXCEPT !.pc = "done"]]
          [] OTHER -> w

\* The event a frame raises at the channel ch when it arrives at channel h:
\* what the 'message' listener of h does with it.
RECURSIVE EventAt(_, _, _, _)
EventAt(m, h, data, ch) ==
    IF Len(data) < 2 THEN "none"
    ELSE LET msg == parse(data)
             known == MapHas(m.chan[h].channels, msg.channelId)
             entry == MapGet(m.chan[h].channels, msg.channelId)
         IN  IF ~known THEN "none"
             ELSE CASE msg.type = Data -> EventAt(m, entry, msg.payload, ch)
                    [] msg.type = RawBinaryData ->
                         IF entry = ch THEN "message" ELSE "none"
                    [] msg.type = CloseChannel ->
                         IF entry = ch THEN "close" ELSE "none"
                    [] OTHER -> "none"

\* The payload of the frame that raises a 'message' event.
RECURSIVE Innermost(_)
Innermost(data) ==
    LET msg == parse(data)
    IN  IF msg.type = Data THEN Innermost(msg.payload) ELSE msg.payload

\* ---------------------------------------------------------- pushFile steps
PushReturn(w) ==
    /\ Return(w.m)
    /\ push' = w.p

notPushMuxVars == <<now, horizon, proxy, upstream, ws, disk, pending, last,
                    ghost, mapping, syncState, peerVars, listVars, muxGhost,
                    besidesPush>>

\* pushFile(wsServer, udid, file, remotePath) is called: getFslSession()
\* opens the socket.
PushCall(size) ==
    /\ push.pc = "idle"
    /\ push' = [push EXCEPT !.pc = "connecting", !.size = size]
    /\ UNCHANGED <<muxVars, notPushVars>>

\* The socket opens: getFslSession() wraps it and creates the session
\* channel, which opens in its microtask; pushFile() then creates its
\* channel and sends NEW.
PushSessionOpen ==
    /\ push.pc = "connecting"
    /\ socket.readyState = CONNECTING
    /\ chan = <<>>
    /\ LET opened == [World EXCEPT
                          !.socket.readyState = OPEN,
                          !.chan = <<NewMuxChannel(0, 0, OPEN)>>]
           session == createChannel(opened, 1, FslsInit)
           ready == openChannel([session EXCEPT !.tasks = Tail(@)], 2)
           made == createChannel(ready, 2, SendInit)
       IN  PushReturn(sendCommand(
               [m |-> made, p |-> [push EXCEPT !.session = 2, !.ch = 3]],
               buildPushCommandNew, "NEW"))
    /\ UNCHANGED notPushMuxVars

\* The socket fails to open: getFslSession() rejects.
PushSocketError ==
    /\ push.pc = "connecting"
    /\ socket.readyState = CONNECTING
    /\ socket' = [socket EXCEPT !.readyState = CLOSED]
    /\ push' = [push EXCEPT !.pc = "failed"]
    /\ UNCHANGED <<chan, microtasks, notPushMuxVars>>

\* A frame of the peer arrives: the multiplexer routes it, and the
\* listeners of waitForPushAck take the event it raises at the channel.
PushPeerFrame(data) ==
    /\ chan # <<>>
    /\ socket.readyState \in {OPEN, CLOSING}
    /\ microtasks = <<>>
    /\ LET event == EventAt(World, 1, data, push.ch)
           routed == [m |-> onMessage(World, 1, data), p |-> push]
           r == parsePushResponse(Innermost(data))
       IN  IF ~push.listening \/ event = "none" THEN PushReturn(routed)
           ELSE IF event = "close" THEN PushReturn(Failed(routed))
           ELSE IF r = None THEN PushReturn(routed)
           ELSE PushReturn(Acked(routed, r[1]))
    /\ UNCHANGED notPushMuxVars

\* blob.arrayBuffer() resolves: the chunk is sent.
PushChunkRead ==
    /\ push.pc = "read"
    /\ microtasks = <<>>
    /\ PushReturn(sendCommand(
           PushWorld,
           buildPushCommandAppend(push.pushId, ChunkLength(push)), "APPEND"))
    /\ UNCHANGED notPushMuxVars

\* The timer of waitForPushAck fires.
PushAckTimeout ==
    /\ push.listening
    /\ microtasks = <<>>
    /\ push' = Failed(PushWorld).p
    /\ UNCHANGED <<muxVars, notPushVars>>

\* The ACKs of the peer: a new push id (1 or -1), done, an error, and one
\* that is too short.
PushAcks ==
    { <<0, 1, NEW_PUSH_ID>>, <<255, 255, NEW_PUSH_ID>>, <<0, 1, NO_ERROR>>,
      <<0, 1, 255>>, <<0, 1>> }

\* What the peer sends: to the push channel an ACK, a string or its close,
\* and the close of the session channel.
PushPeerFrames ==
    IF push.ch = 0 THEN {}
    ELSE LET sid == chan[push.session].id
             cid == chan[push.ch].id
             inner == { createBuffer(RawBinaryData, cid, ack) :
                          ack \in PushAcks }
                      \cup { createBuffer(RawStringData, cid, <<>>),
                             createBuffer(CloseChannel, cid,
                                          buildClosePayload(DefaultCloseCode)) }
         IN  { createBuffer(Data, sid, f) : f \in inner }
             \cup { createBuffer(CloseChannel, sid,
                                 buildClosePayload(DefaultCloseCode)) }

NextPush ==
    \/ \E size \in FileSizes : PushCall(size)
    \/ PushSessionOpen
    \/ PushSocketError
    \/ \E data \in PushPeerFrames : PushPeerFrame(data)
    \/ PushChunkRead
    \/ PushAckTimeout
    \/ RunMicrotask
    \/ (push.ch # 0 /\ SocketClose)

SpecPush == Init({<<Some("A"), None, None>>}, 1) /\ [][NextPush]_vars

\* The states of the push commands among the frames written to the socket,
\* oldest first.
RECURSIVE PushStates(_)
PushStates(sent) ==
    IF sent = <<>> THEN <<>>
    ELSE LET bytes == Innermost(Head(sent).bytes)
             outer == parse(Head(sent).bytes)
             inner == parse(outer.payload)
         IN  IF /\ outer.type = Data
                /\ inner.type = RawBinaryData
                /\ bytes[1] = TYPE_PUSH_FILE
             THEN <<bytes[4]>> \o PushStates(Tail(sent))
             ELSE PushStates(Tail(sent))

\* NEW, START, APPEND..., FINISH
InPushOrder(states) ==
    \A i \in DOMAIN states :
        CASE i = 1 -> states[i] = StateNEW
          [] i = 2 -> states[i] = START
          [] OTHER -> /\ states[i] \in {APPEND, FINISH}
                      /\ states[i - 1] # FINISH

\* C24: a push command is written only when every command before it has
\* been acknowledged, in the order NEW, START, APPEND..., FINISH, and none
\* is written once pushFile() has failed (a failed ACK, an ACK timeout) or
\* its channel has closed.
C24_LockStep ==
    [][Len(PushStates(socket'.sent)) > Len(PushStates(socket.sent)) =>
           /\ Len(PushStates(socket'.sent)) = Len(PushStates(socket.sent)) + 1
           /\ push'.acked = Len(PushStates(socket.sent))
           /\ InPushOrder(PushStates(socket'.sent))
           /\ push.pc \notin {"failed", "done"}
           /\ push.ch # 0 => chan[push.ch].readyState \notin {CLOSING, CLOSED}
      ]_vars

\* ---------------------------------------------------------- AnnexBSplitter
\* splitter.buf and splitter.seen are the fields of the object;
\* splitter.units is the stream it is fed, as the framed units
\* [code, payload]; splitter.fed counts the bytes pushed so far;
\* splitter.emitted holds what onNalu was called with; splitter.inside
\* tells whether a chunk ended inside a start code.

\* How many units a stream holds and how many bytes a unit carries.
MaxUnits == 3
MaxPayload == 2

BufferLimit == 4096

\* A start code only of three bytes.
findStartShort(u8, from) ==
    LET found == { i \in from..(Len(u8) - 4) :
                     u8[i + 1] = 0 /\ u8[i + 2] = 0 /\ u8[i + 3] = 1 }
    IN  IF found = {} THEN None
        ELSE Some([idx |-> Min(found), len |-> 3])

\* findStart(u8, from): positions count from 0, None for null.
findStart(u8, from) ==
    LET found == { i \in from..(Len(u8) - 4) :
                     /\ u8[i + 1] = 0
                     /\ u8[i + 2] = 0
                     /\ \/ u8[i + 3] = 1
                        \/ u8[i + 3] = 0 /\ u8[i + 4] = 1 }
    IN  IF found = {} THEN None
        ELSE LET i == Min(found)
             IN  Some([idx |-> i, len |-> IF u8[i + 3] = 1 THEN 3 ELSE 4])

\* u8.slice(start) and u8.slice(start, end)
sliceFrom(u8, start) == SubSeq(u8, start + 1, Len(u8))
slice(u8, start, end) == SubSeq(u8, start + 1, end)

\* The `while (true)` loop of push().
RECURSIVE Split(_, _)
Split(s, pos) ==
    LET s1 == findStart(s.buf, pos)
        s2 == findStart(s.buf, s1[1].idx + s1[1].len)
        nalu == slice(s.buf, s1[1].idx, s2[1].idx)
    IN  IF s1 = None THEN s
        ELSE IF s2 = None
        THEN IF s1[1].idx > 0
             THEN [s EXCEPT !.buf = sliceFrom(@, s1[1].idx)]
             ELSE s
        ELSE Split(IF Len(nalu) > s1[1].len
                   THEN [s EXCEPT !.emitted = Append(@, nalu)]
                   ELSE s,
                   s2[1].idx)

\* AnnexBSplitter.push(chunk)
splitterPush(s, chunk) ==
    LET joined == [s EXCEPT !.buf = @ \o chunk]
        first == findStart(joined.buf, 0)
    IN  IF ~joined.seen
        THEN IF first = None
             THEN IF Len(joined.buf) > BufferLimit
                  THEN [joined EXCEPT
                            !.buf = sliceFrom(@, Len(@) - BufferLimit)]
                  ELSE joined
             ELSE Split([joined EXCEPT
                             !.seen = TRUE,
                             !.buf = IF first[1].idx > 0
                                     THEN sliceFrom(@, first[1].idx)
                                     ELSE @],
                        0)
        ELSE Split(joined, 0)

\* The start codes.
StartCodes == { <<0, 0, 1>>, <<0, 0, 0, 1>> }

\* The payloads of NAL units, over the bytes 00 and 01: no 00 00 inside,
\* and the last byte is not 0.
Payloads ==
    UNION { { p \in [1..n -> {0, 1}] :
                /\ p[n] # 0
                /\ \A i \in 1..(n - 2) : ~(p[i] = 0 /\ p[i + 1] = 0) } :
            n \in 1..MaxPayload }

FramedUnits == [code : StartCodes, payload : Payloads]

Framed(unit) == unit.code \o unit.payload

RECURSIVE Flat(_)
Flat(seqs) == IF seqs = <<>> THEN <<>> ELSE Head(seqs) \o Flat(Tail(seqs))

Stream(units) == Flat(MapSeq(units, Framed))

\* Whether the byte position n lies strictly inside a start code of the
\* stream.
InsideCode(units, n) ==
    \E k \in DOMAIN units :
        LET start == Len(Stream(SubSeq(units, 1, k - 1)))
        IN  start < n /\ n < start + Len(units[k].code)

\* ---------------------------------------------------- AnnexBSplitter steps
\* A stream is chosen and a new AnnexBSplitter is made for it.
SplitterStream(units) ==
    /\ splitter.units = <<>>
    /\ splitter' = [splitter EXCEPT !.units = units]
    /\ UNCHANGED notSplitterVars

\* The next n bytes of the stream are pushed.
SplitterPush(n) ==
    /\ n <= Len(Stream(splitter.units)) - splitter.fed
    /\ LET chunk == SubSeq(Stream(splitter.units), splitter.fed + 1,
                           splitter.fed + n)
           fed == [splitter EXCEPT
                       !.fed = @ + n,
                       !.inside = @ \/ InsideCode(splitter.units,
                                                  splitter.fed + n)]
       IN  splitter' = splitterPush(fed, chunk)
    /\ UNCHANGED notSplitterVars

NextSplitter ==
    \/ \E n \in 1..MaxUnits : \E units \in [1..n -> FramedUnits] :
           SplitterStream(units)
    \/ \E n \in 1..(MaxUnits * (4 + MaxPayload)) : SplitterPush(n)

SpecSplitter ==
    Init({<<Some("A"), None, None>>}, 1) /\ [][NextSplitter]_vars

\* The units of the stream but the last, each with its start code.
Withheld(units) == MapSeq(SubSeq(units, 1, Len(units) - 1), Framed)

\* C25: what the splitter has emitted is, in order, the framed units of
\* the stream with their start codes, and once the whole stream is pushed
\* it is all of them but the last, wherever the chunks ended.
C25_EmitsFramedUnits ==
    /\ IsPrefix(splitter.emitted, Withheld(splitter.units))
    /\ (splitter.units # <<>>
        /\ splitter.fed = Len(Stream(splitter.units)))
           => splitter.emitted = Withheld(splitter.units)

\* A stream of MaxUnits units with both kinds of start code, pushed whole
\* in chunks of which one ended inside a start code.
C25_SplitInsideCode ==
    /\ Len(splitter.units) = MaxUnits
    /\ splitter.fed = Len(Stream(splitter.units))
    /\ splitter.inside
    /\ \E i, j \in DOMAIN splitter.units :
           i < j /\ j < MaxUnits
               /\ splitter.units[i].code # splitter.units[j].code
    /\ Len(splitter.emitted) = MaxUnits - 1

\* ------------------------------------------------------------ StreamConfig
\* The configs normalizeStreamConfig() lets through: the ends of its ranges
\* and values between them.
Bitrates == {524288, 524289, 600000, 8388608}
FrameRates == {1, 25, 60}
FrameIntervals == {0, 5, 60}
Widths == {400, 500, 1200}
Heights == {400, 4000}
Orientations == -1..3
DisplayIds == {0, 1, 16777217}

StreamConfigs ==
    [bitrate : Bitrates, maxFps : FrameRates, iFrameInterval : FrameIntervals,
     bounds : [width : Widths, height : Heights], sendFrameMeta : BOOLEAN,
     lockedVideoOrientation : Orientations, displayId : DisplayIds]

\* The bytes of a Uint8Array(36) after the assignments out[i] = v, given as
\* pairs <<i, v>>.
Filled(assignments) ==
    [i \in 1..36 |->
        IF \E a \in assignments : a[1] = i - 1
        THEN (CHOOSE a \in assignments : a[1] = i - 1)[2]
        ELSE 0]

\* buildConfigBinary(cfg)
buildConfigBinary(cfg) ==
    LET brScaled == cfg.bitrate \div 256
        w == cfg.bounds.width % 65536
        h == cfg.bounds.height % 65536
        did == cfg.displayId
    IN  Filled({ <<0, 101>>,
                 <<1, brScaled % 256>>,
                 <<2, (brScaled \div 256) % 256>>,
                 <<3, (brScaled \div 65536) % 256>>,
                 <<4, (brScaled \div 16777216) % 256>>,
                 <<8, cfg.maxFps % 256>>,
                 <<9, cfg.iFrameInterval % 256>>,
                 <<10, (w \div 256) % 256>>,
                 <<11, w % 256>>,
                 <<12, (h \div 256) % 256>>,
                 <<13, h % 256>>,
                 <<22, IF cfg.sendFrameMeta THEN 1 ELSE 0>>,
                 <<23, cfg.lockedVideoOrientation % 256>>,
                 <<24, did % 256>>,
                 <<25, (did \div 256) % 256>>,
                 <<26, (did \div 65536) % 256>>,
                 <<27, (did \div 16777216) % 256>> })

\* The byte at index i, indices counting from 0.
At(u8, i) == u8[i + 1]

\* parseConfigBinary without the reading of 0xff as -1.
parseConfigBinaryUnsigned(u8) ==
    IF Len(u8) < 28 \/ At(u8, 0) # 101 THEN None
    ELSE Some(
        [bitrate |-> (At(u8, 1) + At(u8, 2) * 256 + At(u8, 3) * 65536
                      + At(u8, 4) * 16777216) * 256,
         maxFps |-> At(u8, 8),
         iFrameInterval |-> At(u8, 9),
         bounds |-> [width |-> (At(u8, 10) * 256 + At(u8, 11)) % 65536,
                     height |-> (At(u8, 12) * 256 + At(u8, 13)) % 65536],
         sendFrameMeta |-> At(u8, 22) # 0,
         lockedVideoOrientation |-> At(u8, 23),
         displayId |-> At(u8, 24) + At(u8, 25) * 256 + At(u8, 26) * 65536
                       + At(u8, 27) * 16777216])

\* parseConfigBinary(buf), None when it throws
parseConfigBinary(u8) ==
    IF Len(u8) < 28 \/ At(u8, 0) # 101 THEN None
    ELSE Some(
        [bitrate |-> (At(u8, 1) + At(u8, 2) * 256 + At(u8, 3) * 65536
                      + At(u8, 4) * 16777216) * 256,
         maxFps |-> At(u8, 8),
         iFrameInterval |-> At(u8, 9),
         bounds |-> [width |-> (At(u8, 10) * 256 + At(u8, 11)) % 65536,
                     height |-> (At(u8, 12) * 256 + At(u8, 13)) % 65536],
         sendFrameMeta |-> At(u8, 22) # 0,
         lockedVideoOrientation |-> IF At(u8, 23) = 255 THEN -1
                                    ELSE At(u8, 23),
         displayId |-> At(u8, 24) + At(u8, 25) * 256 + At(u8, 26) * 65536
                       + At(u8, 27) * 16777216])

\* ------------------------------------------------------ StreamConfig steps
ConfigChosen(cfg) ==
    /\ config.c = None
    /\ config' = [config EXCEPT !.c = Some(cfg)]
    /\ UNCHANGED notConfigVars

ConfigBuilt ==
    /\ config.c # None
    /\ config.wire = None
    /\ config' = [config EXCEPT !.wire = Some(buildConfigBinary(config.c[1]))]
    /\ UNCHANGED notConfigVars

ConfigParsed ==
    /\ config.wire # None
    /\ config.parsed = None
    /\ config' = [config EXCEPT !.parsed = parseConfigBinary(config.wire[1])]
    /\ UNCHANGED notConfigVars

NextConfig ==
    \/ \E cfg \in StreamConfigs : ConfigChosen(cfg)
    \/ ConfigBuilt
    \/ ConfigParsed

SpecConfig == Init({<<Some("A"), None, None>>}, 1) /\ [][NextConfig]_vars

MinDuration == 1000

\* How many times keepAwake() is called and how long the device is watched,
\* in steps of MinDuration.
MaxAwakeCalls == 2
MaxAwakeTicks == 4

\* The durations asked for, in milliseconds.
Durations == {500, 3000}

\* Math.max(1000, durationMs || 30000)
safeDuration(durationMs) ==
    Max(MinDuration, IF durationMs = 0 THEN 30000 ELSE durationMs)

\* keepAwake() from `const existing = this.timers.get(deviceId)` on.
setTimer(a, call) ==
    LET cleared == IF a.timers # 0
                   THEN [a EXCEPT !.made[a.timers].state = "cleared"]
                   ELSE a
    IN  [cleared EXCEPT
             !.made = Append(@, [due |-> a.clock + a.calls[call].duration,
                                 state |-> "pending", call |-> call]),
             !.timers = Len(a.made) + 1,
             !.calls[call].stage = "done",
             !.calls[call].set = a.clock]

\* --------------------------------------------------- KeepAwakeService steps
\* keepAwake(deviceId, durationMs) is called: `stayon true` is run.
keepAwake(deviceId, durationMs) ==
    /\ Len(awake.calls) < MaxAwakeCalls
    /\ awake' = IF deviceId = <<>> THEN awake
                ELSE [awake EXCEPT
                          !.calls = Append(@, [stage |-> "on",
                                               duration |->
                                                   safeDuration(durationMs),
                                               set |-> 0])]
    /\ UNCHANGED notAwakeVars

\* `svc power stayon true` has run: the screen is woken next.
StayOnDone(call) ==
    /\ awake.calls[call].stage = "on"
    /\ awake' = [awake EXCEPT !.stayon = TRUE, !.calls[call].stage = "wake"]
    /\ UNCHANGED notAwakeVars

\* `svc power stayon true` fails: keepAwake() rejects.
StayOnFailed(call) ==
    /\ awake.calls[call].stage = "on"
    /\ awake' = [awake EXCEPT !.calls[call].stage = "failed"]
    /\ UNCHANGED notAwakeVars

\* `input keyevent 224` has run or has failed: the timer is set.
WakeDone(call) ==
    /\ awake.calls[call].stage = "wake"
    /\ awake' = setTimer(awake, call)
    /\ UNCHANGED notAwakeVars

\* The timer fires: `stayon false` is run and the entry is deleted.
RevertTimerFires(t) ==
    /\ awake.made[t].state = "pending"
    /\ awake.made[t].due <= awake.clock
    /\ awake' = [awake EXCEPT !.made[t].state = "fired",
                              !.offs = @ + 1,
                              !.timers = 0]
    /\ UNCHANGED notAwakeVars

\* `svc power stayon false` has run.
StayOffDone ==
    /\ awake.offs > 0
    /\ awake' = [awake EXCEPT !.stayon = FALSE, !.offs = @ - 1]
    /\ UNCHANGED notAwakeVars

\* `svc power stayon false` fails.
StayOffFailed ==
    /\ awake.offs > 0
    /\ awake' = [awake EXCEPT !.offs = @ - 1]
    /\ UNCHANGED notAwakeVars

\* Time passes, no further than the next timer.
AwakeTick ==
    /\ awake.clock < MaxAwakeTicks * MinDuration
    /\ \A t \in DOMAIN awake.made :
           awake.made[t].state = "pending"
               => awake.clock + MinDuration <= awake.made[t].due
    /\ awake' = [awake EXCEPT !.clock = @ + MinDuration]
    /\ UNCHANGED notAwakeVars

AwakeCalls == DOMAIN awake.calls

NextAwake ==
    \/ \E deviceId \in {<<>>, UsbId}, durationMs \in Durations :
           keepAwake(deviceId, durationMs)
    \/ \E call \in AwakeCalls : StayOnDone(call)
    \/ \E call \in AwakeCalls : StayOnFailed(call)
    \/ \E call \in AwakeCalls : WakeDone(call)
    \/ \E t \in DOMAIN awake.made : RevertTimerFires(t)
    \/ StayOffDone
    \/ StayOffFailed
    \/ AwakeTick

SpecAwake == Init({<<Some("A"), None, None>>}, 1) /\ [][NextAwake]_vars

\* C27: at most one revert timer is pending, and while the duration of the
\* most recent keepAwake() call is running (its timer was set less than its
\* duration ago) stay-on is true on the device.
C27_AwakeWhileRunning ==
    /\ Cardinality({ t \in DOMAIN awake.made :
                       awake.made[t].state = "pending" }) <= 1
    /\ awake.calls # <<>> =>
           LET latest == awake.calls[Len(awake.calls)]
           IN  (latest.stage = "done"
                /\ awake.clock < latest.set + latest.duration)
                   => awake.stayon

\* -------------------------------------------------------- install-uploaded
\* A path is [absolute, segments]: whether it starts with "/", and its
\* segments, each a string of characters.  A resolved path is the string
\* path.resolve() returns.

\* How many segments a requested path has.
MaxSegments == 3

\* process.cwd()
Cwd == <<<<"a">>>>

UploadsName == <<"u", "p">>

\* The segments of requested paths: the uploads directory, a directory
\* whose name starts with its name, a file, the working directory, and the
\* two relative segments.
SegmentNames == { UploadsName, <<"u", "p", "2">>, <<"f">>, <<"a">>, <<".">>,
                  <<".", ".">> }

\* The string of an absolute path with the given segments.
RECURSIVE PathString(_)
PathString(segments) ==
    IF segments = <<>> THEN <<>>
    ELSE <<"/">> \o Head(segments) \o PathString(Tail(segments))

\* The segments path.resolve() is left with: "." is dropped, ".." drops
\* the segment before it.
RECURSIVE Normalized(_, _)
Normalized(done, todo) ==
    IF todo = <<>> THEN done
    ELSE IF Head(todo) = <<".">> THEN Normalized(done, Tail(todo))
    ELSE IF Head(todo) = <<".", ".">>
    THEN Normalized(IF done = <<>> THEN done
                    ELSE SubSeq(done, 1, Len(done) - 1),
                    Tail(todo))
    ELSE Normalized(Append(done, Head(todo)), Tail(todo))

ResolvedSegments(p) ==
    Normalized(IF p.absolute THEN <<>> ELSE Cwd, p.segments)

\* path.resolve(filePath)
resolve(p) ==
    IF ResolvedSegments(p) = <<>> THEN <<"/">>
    ELSE PathString(ResolvedSegments(p))

\* const UPLOAD_DIR = path.resolve(process.cwd(), 'uploads')
UPLOAD_DIR == resolve([absolute |-> FALSE, segments |-> <<UploadsName>>])

\* String.prototype.startsWith
startsWith(str, prefix) == IsPrefix(prefix, str)

\* The handler of POST /api/goog/device/install-uploaded: the status it
\* answers with and whether `adb install` was run.
installUploaded(udid, filePath, exists, adbFails) ==
    LET resolved == resolve(filePath)
        Answer(status, ran) ==
            [filePath |-> filePath, resolved |-> resolved,
             status |-> status, ran |-> ran]
    IN  IF udid = <<>> THEN Answer(400, FALSE)
        ELSE IF ~filePath.absolute /\ filePath.segments = <<>>
        THEN Answer(400, FALSE)
        ELSE IF ~startsWith(resolved, UPLOAD_DIR) THEN Answer(400, FALSE)
        ELSE IF ~exists THEN Answer(404, FALSE)
        ELSE IF adbFails THEN Answer(500, TRUE)
        ELSE Answer(200, TRUE)

\* -------------------------------------------------- install-uploaded steps
RequestedPaths ==
    [absolute : BOOLEAN,
     segments : UNION { [1..n -> SegmentNames] : n \in 0..MaxSegments }]

\* One request is observed; whether the file exists and whether adb fails
\* are for the file system and the device to say.
InstallUploaded(udid, filePath, exists, adbFails) ==
    /\ install = None
    /\ install' = Some(installUploaded(udid, filePath, exists, adbFails))
    /\ UNCHANGED notInstallVars

NextInstall ==
    \E udid \in {<<>>, UsbId}, filePath \in RequestedPaths,
       exists \in BOOLEAN, adbFails \in BOOLEAN :
        InstallUploaded(udid, filePath, exists, adbFails)

SpecInstall == Init({<<Some("A"), None, None>>}, 1) /\ [][NextInstall]_vars

\* The path is the uploads directory or lies below it.
InsideUploads(p) ==
    IsPrefix(ResolvedSegments([absolute |-> FALSE,
                               segments |-> <<UploadsName>>]),
             ResolvedSegments(p))

\* C28: `adb install` is run only for a filePath that resolves to the
\* uploads directory or to a path below it; every other filePath is
\* answered with an error.
C28_InstallInsideUploads ==
    install # None =>
        \/ InsideUploads(install[1].filePath)
        \/ ~install[1].ran /\ install[1].status # 200

\* ------------------------------------------------ POST /api/devices/connect
\* A request carries one item, [device, connect].  connect.stage tells which
\* `await` the handler is at: "serial" (getSerial of a Wi-Fi id), "ip"
\* (getDeviceIp), "usb" (`adb -s uuid usb`), "current" (the collection of
\* the current devices), "disconnect" (the `adb disconnect` commands),
\* "wifi" (connectOverWifi raced with its timeout), "final" (the collection
\* for the response), or "idle".  connect.collect is the collectDevices()
\* call that the handler awaits, as calls.refresh is the one that
\* refreshAndBroadcast() awaits.  connect.preferences is the map of
\* ConnectPreferenceService, a set of <<uuid, type>>.
MaxPosts == 1

ConnectDevices == { <<>>, UsbId, WifiId }
ConnectTypes == {"usb", "wifi", "other"}

\* ConnectPreferenceService.setPreference(uuid, connect)
setPreference(preferences, uuid, type) ==
    IF uuid = <<>> THEN preferences
    ELSE { e \in preferences : e[1] # uuid } \cup { <<uuid, type>> }

\* The objects the handler works on.
ConnectWorld == [dls |-> dls, connect |-> connect]

\* res.json({ success: allSuccess, results, devices })
Responded(w, devices) ==
    LET results == w.connect.results
        response == [success |-> \A i \in DOMAIN results : results[i].success,
                     results |-> results, devices |-> devices]
    IN  [w EXCEPT !.connect.stage = "idle", !.connect.collect = None,
                  !.connect.device = <<>>, !.connect.type = "",
                  !.connect.uuid = <<>>, !.connect.results = <<>>,
                  !.connect.disconnecting = {},
                  !.connect.responses = Append(@, response)]

\* The devices that processItem() disconnects after `adb usb`.
WifiPeers(w, currentDevices) ==
    { currentDevices[i].device : i \in
        { j \in DOMAIN currentDevices :
            /\ currentDevices[j].uuid = w.connect.uuid
            /\ currentDevices[j].connect_type = "wifi"
            /\ includes(currentDevices[j].device, ":") } }
    \cup (IF includes(w.connect.device, ":") THEN {w.connect.device} ELSE {})

\* collectDevices() returns to the handler: to processItem(), which goes on
\* to disconnect the Wi-Fi peers, or to the end of the handler.
ConnectCollected(w, devices) ==
    IF w.connect.stage = "current"
    THEN [w EXCEPT !.connect.stage = "disconnect", !.connect.collect = None,
                   !.connect.disconnecting = WifiPeers(w, devices)]
    ELSE Responded(w, devices)

\* collectDevices() once listDeviceIds() has returned.
ConnectListedIds(w, ids, epoch, t) ==
    IF ids = <<>> THEN ConnectCollected(w, <<>>)
    ELSE [w EXCEPT !.connect.collect = Some([stage |-> "lookups", ids |-> ids,
                                             ts |-> t, epoch |-> epoch])]

\* The handler calls DeviceListSocket.collectDevices(), up to its `await`.
collectDevices(w, t) ==
    LET cached == w.dls.deviceIdsCache
    IN  IF Fresh(cached, t)
        THEN ConnectListedIds(w, cached[1].value, cached[1].epoch, t)
        ELSE [w EXCEPT !.connect.collect = Some([stage |-> "adbkit",
                                                 ids |-> <<>>, ts |-> t,
                                                 epoch |-> w.dls.events])]

\* processItem() returns, and the handler collects the devices it answers
\* with.
ItemDone(w, success, t) ==
    LET result == [device |-> w.connect.device, success |-> success]
    IN  collectDevices([w EXCEPT !.connect.stage = "final",
                                 !.connect.results = Append(@, result)], t)

ConnectReturn(w) ==
    /\ dls' = w.dls
    /\ connect' = w.connect

notConnectListVars == <<now, calls, inbox, horizon, proxy, upstream, ws, disk,
                        pending, last, ghost, mapping, syncState, peerVars,
                        muxVars, besidesConnect>>

\* this.mainApp.post('/api/devices/connect', ...) up to its first `await`.
ConnectPost(device, type) ==
    /\ connect.stage = "idle"
    /\ connect.posts < MaxPosts
    /\ LET w == [ConnectWorld EXCEPT !.connect.posts = @ + 1,
                                     !.connect.device = device,
                                     !.connect.type = type]
       IN  ConnectReturn(
             IF device = <<>> \/ type \notin {"usb", "wifi"}
             THEN ItemDone(w, FALSE, now)
             ELSE IF includes(device, ":")
             THEN [w EXCEPT !.connect.stage = "serial"]
             ELSE [w EXCEPT !.connect.uuid = device,
                            !.connect.stage = IF type = "usb" THEN "usb"
                                              ELSE "ip"])
    /\ UNCHANGED notConnectListVars

\* `await resolveUuid(deviceStr)` returns what getSerial() found.
ConnectSerial(serial) ==
    /\ connect.stage = "serial"
    /\ ConnectReturn(
         IF serial = None THEN ItemDone(ConnectWorld, FALSE, now)
         ELSE [ConnectWorld EXCEPT !.connect.uuid = serial[1],
                                   !.connect.stage = connect.type])
    /\ UNCHANGED notConnectListVars

\* `await DeviceListSocket.getDeviceIp(uuid)` returns.
ConnectIp(ip) ==
    /\ connect.stage = "ip"
    /\ ConnectReturn(
         IF ip = None THEN ItemDone(ConnectWorld, FALSE, now)
         ELSE [ConnectWorld EXCEPT !.connect.stage = "wifi"])
    /\ UNCHANGED notConnectListVars

\* `await execFileAsync('adb', ['-s', uuid, 'usb'])` returns or throws.
ConnectUsb(ok) ==
    /\ connect.stage = "usb"
    /\ ConnectReturn(
         IF ok THEN collectDevices(
                        [ConnectWorld EXCEPT !.connect.stage = "current"], now)
         ELSE ItemDone(ConnectWorld, FALSE, now))
    /\ UNCHANGED notConnectListVars

\* The `adb disconnect` commands have returned.
ConnectDisconnected ==
    /\ connect.stage = "disconnect"
    /\ ConnectReturn(ItemDone(
         [ConnectWorld EXCEPT !.connect.preferences =
                                  setPreference(@, connect.uuid, "usb")],
         TRUE, now))
    /\ UNCHANGED notConnectListVars

\* The race of connectOverWifi() with its timeout is settled.
ConnectWifi(ok) ==
    /\ connect.stage = "wifi"
    /\ ConnectReturn(
         IF ok
         THEN ItemDone([ConnectWorld EXCEPT !.connect.preferences =
                                   setPreference(@, connect.uuid, "wifi")],
                       TRUE, now)
         ELSE ItemDone(ConnectWorld, FALSE, now))
    /\ UNCHANGED notConnectListVars

\* listDeviceIds() sets the cache and returns to the handler's collection.
ConnectCached(w, ids, epoch) ==
    ConnectListedIds(
        [w EXCEPT !.dls.deviceIdsCache =
                      Some([value |-> ids, ts |-> w.connect.collect[1].ts,
                            epoch |-> epoch])],
        ids, epoch, now)

\* The adbkit listing of the handler's collection returns.
ConnectListed(ids) ==
    /\ connect.collect # None
    /\ connect.collect[1].stage = "adbkit"
    /\ IF ids = <<>>
       THEN /\ connect' = [connect EXCEPT !.collect[1].stage = "adb",
                                          !.collect[1].epoch = dls.events]
            /\ UNCHANGED dls
       ELSE \E epoch \in connect.collect[1].epoch..dls.events :
               ConnectReturn(ConnectCached(ConnectWorld, ids, epoch))
    /\ UNCHANGED notConnectListVars

\* Its `adb devices` listing returns.
ConnectAdbListed(ids) ==
    /\ connect.collect # None
    /\ connect.collect[1].stage = "adb"
    /\ \E epoch \in connect.collect[1].epoch..dls.events :
          ConnectReturn(ConnectCached(ConnectWorld, ids, epoch))
    /\ UNCHANGED notConnectListVars

\* Its lookups have all returned.
ConnectLookedUp(info, order) ==
    /\ connect.collect # None
    /\ connect.collect[1].stage = "lookups"
    /\ order \in Orders(connect.collect[1].ids)
    /\ LET raw == MapSeq(order, LAMBDA id : FullPayload(id, info))
       IN  ConnectReturn(ConnectCollected(
               ConnectWorld, Filtered(raw, connect.preferences)))
    /\ UNCHANGED notConnectListVars

\* The connect requests beside the subscribers of the device list.
NextConnect ==
    \/ \E s \in Subscribers : Subscribe(s)
    \/ \E ids \in AdbListings : QuickListed(ids)
    \/ \E ids \in AdbListings : RefreshListed(ids)
    \/ \E ids \in AdbListings : RefreshAdbListed(ids)
    \/ \E info \in DeviceInfos :
         \E order \in UNION { Orders(ids) : ids \in AdbListings } :
            RefreshLookedUp(info, order)
    \/ \E device \in ConnectDevices, type \in ConnectTypes :
            ConnectPost(device, type)
    \/ \E serial \in {None, Some(UsbId)} : ConnectSerial(serial)
    \/ \E ip \in {None, Some(<<"i">>)} : ConnectIp(ip)
    \/ \E ok \in BOOLEAN : ConnectUsb(ok)
    \/ ConnectDisconnected
    \/ \E ok \in BOOLEAN : ConnectWifi(ok)
    \/ \E ids \in AdbListings : ConnectListed(ids)
    \/ \E ids \in AdbListings : ConnectAdbListed(ids)
    \/ \E info \in DeviceInfos :
         \E order \in UNION { Orders(ids) : ids \in AdbListings } :
            ConnectLookedUp(info, order)

SpecConnect == Init({<<Some("A"), None, None>>}, 1) /\ [][NextConnect]_vars

\* The collectDevices() calls that are running.
Collections ==
    (IF calls.refresh # None THEN 1 ELSE 0)
        + (IF connect.collect # None THEN 1 ELSE 0)

\* C29: at most one collectDevices() is running at any time; while one is
\* running at most one follow-up is queued (`pending` is one flag, set only
\* while a refresh is running), and the triggers that find it set are
\* dropped.
C29_OneCollection ==
    /\ Collections <= 1
    /\ dls.pending => dls.refreshing

\* ------------------------------------- device list: the follow-up refresh
\* C30: after a change event of a tracker, subscribers are sent a snapshot
\* computed from a listing of the device ids taken after that event, also
\* when the event arrives while a collection is in flight.  Nothing is sent
\* once every call has returned, so by then a full snapshot made of ids that
\* were listed after the last change event has been sent to the subscribers.
C30_AnsweredAfterEvent ==
    (ListIdle /\ dls.sockets # {} /\ dls.events > 0)
        => dls.answered >= dls.events


\* --------------------------------------- device list: the lookup caches
\* lookup.serialCache and lookup.ipCache are the two Maps, sets of
\* [key, value, ts, epoch]: `epoch` is history, the count of change events
\* at the moment the entry was cached.  lookup.serial and lookup.ip are the
\* getSerial() and getDeviceIp() calls that await a shell command, and
\* lookup.answers is history: for every call that returned, whether it was
\* answered from the cache, the epoch of the entry, and the count of change
\* events when the call was made.
MaxLookups == 2

\* The shell commands that one attempt of getDeviceIp() runs: `ip route`,
\* `ip addr` and `ifconfig` for each of the two IFACES, and `ifconfig`.
IpCommands == 1 + 2 + 2 + 1
IpAttempts == 3

\* map.get(key), None for undefined
CacheGet(map, key) ==
    IF \E e \in map : e.key = key
    THEN Some(CHOOSE e \in map : e.key = key)
    ELSE None

\* map.set(key, { value, ts })
CacheSet(map, key, value, ts, epoch) ==
    { e \in map : e.key # key }
        \cup { [key |-> key, value |-> value, ts |-> ts, epoch |-> epoch] }

LookupAnswer(kind, cached, epoch) ==
    [kind |-> kind, cached |-> cached, epoch |-> epoch, asked |-> dls.events]

notLookupListVars == <<now, dls, calls, inbox, horizon, proxy, upstream, ws,
                       disk, pending, last, ghost, mapping, syncState,
                       peerVars, muxVars, besidesLookup>>

\* getSerial(serial) up to its `await`, and all of it on a fresh entry.
getSerial(key) ==
    /\ lookup.serial = None
    /\ lookup.made < MaxLookups
    /\ LET cached == CacheGet(lookup.serialCache, key)
       IN  IF Fresh(cached, now)
           THEN lookup' = [lookup EXCEPT
                    !.made = @ + 1,
                    !.answers = @ \cup {LookupAnswer("serial", TRUE,
                                                     cached[1].epoch)}]
           ELSE lookup' = [lookup EXCEPT
                    !.made = @ + 1,
                    !.serial = Some([key |-> key, ts |-> now,
                                     asked |-> dls.events])]
    /\ UNCHANGED notLookupListVars

\* `getprop ro.serialno` returns; `value` is its trimmed output.
SerialReturned(value) ==
    /\ lookup.serial # None
    /\ LET call == lookup.serial[1]
           answer == [kind |-> "serial", cached |-> FALSE,
                      epoch |-> dls.events, asked |-> call.asked]
       IN  lookup' = [lookup EXCEPT
               !.serial = None,
               !.serialCache = IF value # <<>>
                               THEN CacheSet(@, call.key, value, call.ts,
                                             dls.events)
                               ELSE @,
               !.answers = @ \cup {answer}]
    /\ UNCHANGED notLookupListVars

\* getDeviceIp(serial) up to its first `await`, and all of it on a fresh
\* entry.
getDeviceIp(key) ==
    /\ lookup.ip = None
    /\ lookup.made < MaxLookups
    /\ LET cached == CacheGet(lookup.ipCache, key)
       IN  IF Fresh(cached, now)
           THEN lookup' = [lookup EXCEPT
                    !.made = @ + 1,
                    !.answers = @ \cup {LookupAnswer("ip", TRUE,
                                                     cached[1].epoch)}]
           ELSE lookup' = [lookup EXCEPT
                    !.made = @ + 1,
                    !.ip = Some([key |-> key, ts |-> now,
                                 asked |-> dls.events, attempt |-> 0,
                                 command |-> 1])]
    /\ UNCHANGED notLookupListVars

\* A shell command of getDeviceIp() returns; `found` is what pickIpv4()
\* makes of its output.  After the last command of an attempt the call
\* awaits delay(300).
IpReturned(found) ==
    /\ lookup.ip # None
    /\ lookup.ip[1].command <= IpCommands
    /\ LET call == lookup.ip[1]
           answer == [kind |-> "ip", cached |-> FALSE,
                      epoch |-> dls.events, asked |-> call.asked]
       IN  IF found # None
           THEN lookup' = [lookup EXCEPT
                    !.ip = None,
                    !.ipCache = CacheSet(@, call.key, found[1], call.ts,
                                         dls.events),
                    !.answers = @ \cup {answer}]
           ELSE lookup' = [lookup EXCEPT !.ip[1].command = @ + 1]
    /\ UNCHANGED notLookupListVars

\* delay(300) is over: the next attempt, or `return` after the third.
IpDelayed ==
    /\ lookup.ip # None
    /\ lookup.ip[1].command > IpCommands
    /\ LET call == lookup.ip[1]
           answer == [kind |-> "ip", cached |-> FALSE,
                      epoch |-> dls.events, asked |-> call.asked]
       IN  IF call.attempt + 1 < IpAttempts
           THEN lookup' = [lookup EXCEPT !.ip[1].attempt = @ + 1,
                                         !.ip[1].command = 1]
           ELSE lookup' = [lookup EXCEPT !.ip = None,
                                         !.answers = @ \cup {answer}]
    /\ UNCHANGED notLookupListVars

\* The lookups beside the tracker's change events.
NextLookup ==
    \/ \E s \in Subscribers : Subscribe(s)
    \/ \E t \in Trackers : TrackerStarted(t)
    \/ \E t \in Trackers : TrackerChange(t)
    \/ \E key \in {UsbId, WifiId} : getSerial(key)
    \/ \E value \in {<<>>, UsbId} : SerialReturned(value)
    \/ \E key \in {UsbId, WifiId} : getDeviceIp(key)
    \/ \E found \in {None, Some(<<"i">>)} : IpReturned(found)
    \/ IpDelayed
    \/ Elapse

SpecLookup ==
    Init({<<Some("A"), None, None>>}, 1 + MaxExpiries * CACHE_TTL)
        /\ [][NextLookup]_vars

\* C31: every change event of the tracker invalidates the serial, IP and
\* id-list caches, so no lookup made after the event is answered from an
\* entry cached before it.
C31_NoAnswerFromBefore ==
    \A a \in lookup.answers : a.cached => a.epoch >= a.asked


\* ------------------------------------------ multiplexer: the id allocator
\* The peer announces children of the root, the one with the largest id
\* among them, and the client allocates ids beside them.
TopFrames ==
    { createBuffer(type, id, <<>>) :
        type \in {CreateChannel, CloseChannel}, id \in {1, TopId} }

NextAlloc ==
    \/ wrap
    \/ SocketOpen
    \/ \E data \in TopFrames : PeerFrame(data)
    \/ RunMicrotask
    \/ \E h \in DOMAIN chan : createChannelCall(h)
    \/ \E h \in DOMAIN chan : closeCall(h)

SpecAlloc == Init({<<Some("A"), None, None>>}, 1) /\ [][NextAlloc]_vars

\* C32: every id that createChannel() gets from getNextId() is in the range
\* 1 .. 2^32 - 1, so the id written in the CreateChannel frame is the id
\* under which the child is registered.
C32_AllocatedInRange ==
    \A h \in muxGhost.local :
        /\ chan[h].id \in 1..TopId
        /\ createBuffer(CreateChannel, chan[h].id, InitData)[2] = chan[h].id


\* ------------------------------------------- session: timers after a stop
\* A playback is running: the player has a recording, is not paused, and
\* the session is in state run.
RunningPlayback ==
    /\ proxy.playback # None
    /\ ~proxy.playbackPaused
    /\ proxy.currentState = "run"

\* C33: after a pause() of a running playback that succeeds, after a stop()
\* that succeeds and after release(), no playback timer is pending, so no
\* recorded message is written upstream before a resume() or runRecording().
C33_NoTimerAfterStop ==
    [][(\/ pause /\ RunningPlayback /\ last'.res = "ok"
        \/ /\ stop \/ \E written \in BOOLEAN : stopRecordingDone(written)
           /\ last' = Outcome("stop", TRUE)
        \/ DownstreamClose)
          => proxy'.playbackTimers = {}]_vars


\* ------------------------------------------ session: the queue at release
\* C34: the frames that are in the pending queue when the session is
\* released are never written upstream: release() empties the queue and
\* writes nothing, nothing is written upstream once the session is
\* released, and an upstream socket that opens after the release is closed
\* with no frame sent on it.
C34_ReleasedQueueDropped ==
    [][/\ DownstreamClose =>
            (proxy'.storage = <<>> /\ upstream'.sent = upstream.sent)
       /\ proxy.released => upstream'.sent = upstream.sent
       /\ (UpstreamOpen /\ proxy.released) =>
            (upstream'.readyState = "closing" /\ upstream'.sent = <<>>)]_vars

\* Frames were queued, the session was released, and the upstream socket
\* opened afterwards: none of them was sent.
C34_OpenedAfterRelease ==
    /\ proxy.released
    /\ proxy.remoteSocket
    /\ ghost.queued > 0
    /\ upstream.sent = <<>>
    /\ upstream.readyState = "closing"


\* ------------------------------------------------- the session registry
\* reg.objs holds the WebsocketProxy objects, reg.sessions is the Map
\* WebsocketProxy.sessions (a set of <<session id, object>>) and
\* reg.statuses is the Map of RecordingStatusService (a set of
\* <<device, status>>).  An operation of a session sees, as its `status`,
\* the entry of its own id.
RegView(o) ==
    LET sid == RegSid(o)
    IN  [reg.objs[o][1] EXCEPT !.status =
            IF MapHas(reg.statuses, sid)
            THEN Some(MapGet(reg.statuses, sid)) ELSE None]

\* RecordingStatusService after an operation left the session as p.
RegStatuses(o, p) ==
    IF p.status = None THEN MapDelete(reg.statuses, RegSid(o))
    ELSE MapSet(reg.statuses, RegSid(o), p.status[1])

\* WebsocketProxy.getBySession(sid), None for undefined
RegGetBySession(sid) ==
    IF MapHas(reg.sessions, sid) THEN Some(MapGet(reg.sessions, sid)) ELSE None

\* createProxy(): the constructor and init() up to its first `await`.
RegCreate(o) ==
    /\ reg.objs[o] = None
    /\ o = "new" => reg.objs["old"] # None
    /\ LET p == NewProxy(Some(RegSid(o)), None, None, now)
       IN  reg' = [reg EXCEPT
                     !.objs[o] = Some(p),
                     !.sessions = MapSet(@, RegSid(o), o),
                     !.statuses = RegStatuses(o, p)]
    /\ UNCHANGED notRegVars

\* release() of the session o.
RegRelease(o) ==
    /\ reg.objs[o] # None
    /\ ~reg.objs[o][1].released
    /\ LET p1 == stopPlayback([RegView(o) EXCEPT !.released = TRUE], TRUE)
           p2 == [flush(p1) EXCEPT !.status = None]
       IN  reg' = [reg EXCEPT
                     !.objs[o] = Some(p2),
                     !.sessions = MapDelete(@, RegSid(o)),
                     !.statuses = RegStatuses(o, p2)]
    /\ UNCHANGED notRegVars

\* startRecording() on the object p; p itself when it throws.
startRecordingOn(p, t) ==
    IF ~startRecordingAllowed(p) THEN p
    ELSE LET resolvedId == CreateId(t)
             p1 == [p EXCEPT !.recorder = Some(NewRecorder(resolvedId, t)),
                             !.activeRecordId = Some(resolvedId)]
             p2 == updateStatus(p1, "record", Some(resolvedId), 0, t)
         IN  [p2 EXCEPT !.recordingPaused = FALSE]

\* pause() on the object p; p itself when it throws.
pauseOn(p, t) ==
    IF p.currentState = "pause" \/ p.currentState = "stop" THEN p
    ELSE IF p.recorder # None /\ ~p.recordingPaused
    THEN updateStatus(
             [p EXCEPT !.recordingPaused = TRUE,
                       !.recorder = Some(RecorderPause(p.recorder[1], t))],
             "pause", p.activeRecordId, 0, t)
    ELSE IF p.playback # None /\ ~p.playbackPaused
    THEN pausePlayback(p, t)
    ELSE p

\* resume() on the object p; p itself when it throws.
resumeOn(p, rs, t) ==
    IF p.currentState # "pause" THEN p
    ELSE IF p.recorder # None /\ p.recordingPaused
    THEN updateStatus(
             [p EXCEPT !.recordingPaused = FALSE,
                       !.recorder = Some(RecorderResume(p.recorder[1], t))],
             "record", p.activeRecordId, 0, t)
    ELSE IF p.playback # None /\ p.playbackPaused
    THEN resumePlayback(p, rs, t)
    ELSE p

\* POST /api/recordings/start, /pause and /resume with {session}: the
\* request is answered 404 when getBySession() finds nothing.
\* The upstream sockets of these sessions have still to open.
RegControl(sid, op) ==
    /\ RegGetBySession(sid) # None
    /\ LET o == RegGetBySession(sid)[1]
           p == CASE op = "start" -> startRecordingOn(RegView(o), now)
                  [] op = "pause" -> pauseOn(RegView(o), now)
                  [] op = "resume" -> resumeOn(RegView(o), "connecting", now)
       IN  reg' = [reg EXCEPT !.objs[o] = Some(p),
                              !.statuses = RegStatuses(o, p)]
    /\ UNCHANGED notRegVars

NextRegistry ==
    \/ \E o \in RegObjs : RegCreate(o)
    \/ \E o \in RegObjs : RegRelease(o)
    \/ \E sid \in {<<"a">>, <<"b">>}, op \in {"start", "pause", "resume"} :
            RegControl(sid, op)

SpecRegistry == Init({<<Some("A"), None, None>>}, 1) /\ [][NextRegistry]_vars

\* The session o is the one getBySession() finds under its id.
Discoverable(o) == RegGetBySession(RegSid(o)) = Some(o)

\* C35: a live session stays discoverable through getBySession() until it
\* is itself released: the release of another session, one registered under
\* the same id included, does not remove it from the registry.
C35_ReleaseKeepsOthers ==
    [][\A o \in RegObjs :
          RegRelease(o) =>
              \A x \in RegObjs \ {o} : Discoverable(x) => Discoverable(x)']_vars


\* ---------------------------------------- session: its status entry
\* Every control operation on a session, and its release at any moment.
NextRelease ==
    \/ NextControl
    \/ DownstreamClose

SpecRelease == Init(Options, MaxTimeControl) /\ [][NextRelease]_vars

\* C36: the entry of RecordingStatusService for a session exists only while
\* the session is live, and then says the session's current state: a
\* released session has no entry, whatever ran before or after its release.
C36_StatusOfLiveSession ==
    /\ proxy.released => proxy.status = None
    /\ Reachable => proxy.status = Some(proxy.currentState)

\* ---------------------------------------------------------------------
\* Way back to state stop (part_007, stop 250-263, runRecording 265-276).
\* ---------------------------------------------------------------------

\* stop() completes: with a recorder it is stopRecording(), which wants state
\* record or pause; without one it wants a playback.
StopCompletes(p) ==
    IF p.recorder # None
    THEN p.currentState \in {"record", "pause"}
    ELSE p.playback # None

\* C37: a session can always be brought back to state stop: in every state
\* other than stop, stop() completes or a playback finish timer is pending,
\* also after runRecording() ran while the upstream socket was not open.
\* States in which a call is suspended at its `await` are left aside: the
\* call has not finished its work.
C37_WayBackToStop ==
    (Reachable /\ pending = {} /\ proxy.currentState # "stop") =>
        \/ StopCompletes(proxy)
        \/ proxy.playbackFinishTimer # {}

\* ---------------------------------------------------------------------
\* Sessions that follow each other (part_007 forwardFromSync 404-410,
\* SyncService.mirror 63-75).
\* ---------------------------------------------------------------------

\* What the session object o was handed for its upstream socket: what was
\* written to it and what still waits in the queue.
Handed(o) == peers[o][1].upstream.sent \o peers[o][1].proxy.storage

FollowEachOther(a, b) ==
    /\ Has(Receivers(mapping, a), b)
    /\ Has(Receivers(mapping, b), a)

\* C39: a frame delivered to a follower by the sync dispatch is not mirrored
\* again to the follower's own followers: also while two sessions follow each
\* other, no session is handed a frame twice, and one downstream frame hands
\* each session at most one frame.
C39_NoSecondMirror ==
    /\ \A o \in Objs :
          peers[o] # None =>
             /\ \A i, j \in 1..Len(Handed(o)) :
                   Handed(o)[i] = Handed(o)[j] => i = j
             /\ Len(Handed(o)) <= Len(delivered[o])
    /\ \A o \in Objs :
          (Connected(o) /\ peers[o][1].ws.readyState = "open") =>
             LET ps == Mirrored([peers EXCEPT ![o] =
                                    Some(Received(peers[o][1], Frame(0), now))],
                                mirror(SidOf(o)), Frame(0))
             IN  \A x \in Objs :
                    peers[x] # None =>
                       Len(ps[x][1].upstream.sent \o ps[x][1].proxy.storage)
                          <= Len(Handed(x)) + 1

\* p and q follow each other and two frames arrived from downstream sockets:
\* both upstream sockets were written both frames, once each.
C39_Witness ==
    /\ FollowEachOther(<<"a">>, <<"b">>)
    /\ Connected("p") /\ Connected("q")
    /\ Len(peers["p"][1].upstream.sent) = 2
    /\ peers["q"][1].upstream.sent = peers["p"][1].upstream.sent
    /\ peers["p"][1].upstream.sent[1] # peers["p"][1].upstream.sent[2]

\* ---------------------------------------------------------------------
\* Release of a session outside the mapping (part_007 release 155-169,
\* SyncService.clear 46-48).
\* ---------------------------------------------------------------------

\* POST /api/sync with target a and devices a, b: the session c is neither a
\* source nor a follower.
PairRequests ==
    { [target |-> [isArray |-> FALSE, items |-> <<Str(<<"a">>)>>],
       devices |-> <<Str(<<"a">>), Str(<<"b">>)>>] }

NextSyncRelease ==
    \/ \E request \in PairRequests :
          setMapping(request.target, request.devices)
    \/ \E o \in Objs : Connect(o)
    \/ \E o \in Objs : PeerUpstreamOpen(o)
    \/ \E o \in Objs : PeerRelease(o)
    \/ \E o \in Objs : PeerMessage(o)

SpecSyncRelease ==
    Init({<<Some("A"), None, None>>}, 1) /\ [][NextSyncRelease]_vars

InMapping(sid) ==
    \E i \in 1..Len(mapping) :
        mapping[i].target = sid \/ Has(mapping[i].receivers, sid)

\* C38: the release of a session that is neither a source nor a follower in
\* the current sync mapping leaves the mapping unchanged.
C38_ReleaseOutsideMapping ==
    [][\A o \in Objs :
          (PeerRelease(o) /\ ~InMapping(SidOf(o))) => mapping' = mapping]_vars

\* ---------------------------------------------------------------------
\* Trackers at work (DeviceListSocket.ts, ensureTracker 182-211,
\* scheduleTrackerRestart 213-222).
\* ---------------------------------------------------------------------

\* The trackers that are being started or deliver the changes of the device
\* list.
AtWork == { t \in 1..Len(dls.trackers) : dls.trackers[t] \in {"starting", "live"} }

\* C40: at most one tracker of DeviceListSocket is at work at any time,
\* whatever the order of error, end, expiry of the restart timer and new
\* subscriptions.
C40_OneTracker == Cardinality(AtWork) <= 1
====
